---- MODULE Spec2Model ----
(***************************************************************************)
(* Edge client core of the ziti C SDK: the controller client               *)
(* (ziti_ctrl.c, kept as src/unnamed/part_000) and the posture engine      *)
(* (src/library/posture.c).                                                *)
(*                                                                         *)
(* Handlers are written as operators that take the "world" (the controller *)
(* object, the response contexts and the log of requests handed to the     *)
(* HTTP client) and return the world after the handler has run, so that a  *)
(* handler that calls another handler is one atomic step, as it is on the  *)
(* single-threaded loop.                                                   *)
(***************************************************************************)
EXTENDS Integers, Sequences, FiniteSets, TLC

(* ------------------------------ bounds --------------------------------- *)
\* number of response contexts created over a run
MaxReqs == 2
\* largest totalCount a server reports
MaxTotal == 3
\* largest page size set through ziti_ctrl_set_page_size
MaxPageSize == 2
\* body chunks delivered before end-of-body
MaxChunks == 1
\* posture submissions in flight
MaxPosts == 2
\* process probes queued on the worker
MaxWork == 2
\* posture query sets of a service, and posture queries of a set
MaxSets == 2
MaxQueries == 2

(* ------------------------- program constants --------------------------- *)
DEFAULT_PAGE_SIZE == 25
NO_TIMEOUTS == -1
\* the log levels: NONE is 0 and TRACE the last of them
NONE == 0
ERROR == 1
TRACE == 6
ZITI_LOG_DEFAULT_LEVEL == -1

NULL == "NULL"

Urls == {"https://a.example", "https://b.example"}
Tokens == {"T1", "T2"}
Instances == {"i1", "i2"}
Statuses == {200, 404}
\* error codes a server puts in an envelope (one mapped to AUTH_FAILED, one
\* to NOT_FOUND, one the table does not know)
ServerCodes == {"UNAUTHORIZED", "NOT_FOUND", "SOMETHING_NEW"}
\* an envelope whose error object has no code
NoCode == "(no code)"
\* every code of the table of code_to_error, two codes it does not hold,
\* and no code
AllCodes ==
    {"NOT_FOUND", "CONTROLLER_UNAVAILABLE", "NO_ROUTABLE_INGRESS_NODES",
     "NO_EDGE_ROUTERS_AVAILABLE", "INVALID_AUTHENTICATION", "REQUIRES_CERT_AUTH",
     "UNAUTHORIZED", "INVALID_POSTURE", "INVALID_AUTH", "MFA_INVALID_TOKEN",
     "MFA_EXISTS", "MFA_NOT_ENROLLED", "INVALID_ENROLLMENT_TOKEN", "COULD_NOT_VALIDATE",
     "SOMETHING_NEW", "not_found", NoCode}

VARIABLES
    ctrl,       \* ziti_controller
    reqs,       \* the response contexts (struct ctrl_resp) and their HTTP requests, by slot
    ev,         \* what the step just taken did: the call made, the user callbacks
                \* invoked, the requests handed to the HTTP client, the observer calls
    ztx,        \* the part of struct ziti_ctx the posture engine uses
    posts,      \* the posture submissions the controller client has in flight
    work,       \* the process probes queued on the loop (struct process_work), in
                \* the order they were queued
    hist,       \* the ids of the last bulk submission that failed and have not
                \* been submitted since
    service,    \* a ziti_service: its posture_query_map, and the map it had
                \* before ziti_service_has_query_with_timeout was last called
    log         \* the log levels: the static log_levels and ziti_log_lvl, and
                \* the level last asked for each marker

vars == <<ctrl, reqs, ev, ztx, posts, work, hist, service, log>>

Slots == 1..MaxReqs

(* ------------------------------ values --------------------------------- *)
NullErr == [err |-> NULL, code |-> NULL, http_code |-> 0, message |-> NULL]
NullObj == [kind |-> NULL, items |-> <<>>, val |-> NULL]

UserCtx(i) == [k |-> "user", n |-> i]
RespPtr(i) == [k |-> "resp", n |-> i]

Min(a, b) == IF a <= b THEN a ELSE b
Max(a, b) == IF a >= b THEN a ELSE b

(* ---------------------------- code_to_error ---------------------------- *)
code_to_error_without_invalid_auth(code) ==
    CASE code = NULL -> "OK"
      [] code = "NOT_FOUND" -> "NOT_FOUND"
      [] code = "CONTROLLER_UNAVAILABLE" -> "CONTROLLER_UNAVAILABLE"
      [] code = "NO_ROUTABLE_INGRESS_NODES" -> "GATEWAY_UNAVAILABLE"
      [] code = "NO_EDGE_ROUTERS_AVAILABLE" -> "GATEWAY_UNAVAILABLE"
      [] code = "INVALID_AUTHENTICATION" -> "AUTH_FAILED"
      [] code = "REQUIRES_CERT_AUTH" -> "AUTH_FAILED"
      [] code = "UNAUTHORIZED" -> "AUTH_FAILED"
      [] code = "INVALID_POSTURE" -> "INVALID_POSTURE"
      [] code = "MFA_INVALID_TOKEN" -> "MFA_INVALID_TOKEN"
      [] code = "MFA_EXISTS" -> "MFA_EXISTS"
      [] code = "MFA_NOT_ENROLLED" -> "MFA_NOT_ENROLLED"
      [] code = "INVALID_ENROLLMENT_TOKEN" -> "JWT_INVALID"
      [] code = "COULD_NOT_VALIDATE" -> "NOT_AUTHORIZED"
      [] OTHER -> "UNSPECIFIED"

code_to_error(code) ==
    CASE code = NULL -> "OK"
      [] code = "NOT_FOUND" -> "NOT_FOUND"
      [] code = "CONTROLLER_UNAVAILABLE" -> "CONTROLLER_UNAVAILABLE"
      [] code = "NO_ROUTABLE_INGRESS_NODES" -> "GATEWAY_UNAVAILABLE"
      [] code = "NO_EDGE_ROUTERS_AVAILABLE" -> "GATEWAY_UNAVAILABLE"
      [] code = "INVALID_AUTHENTICATION" -> "AUTH_FAILED"
      [] code = "REQUIRES_CERT_AUTH" -> "AUTH_FAILED"
      [] code = "UNAUTHORIZED" -> "AUTH_FAILED"
      [] code = "INVALID_POSTURE" -> "INVALID_POSTURE"
      [] code = "INVALID_AUTH" -> "AUTH_FAILED"
      [] code = "MFA_INVALID_TOKEN" -> "MFA_INVALID_TOKEN"
      [] code = "MFA_EXISTS" -> "MFA_EXISTS"
      [] code = "MFA_NOT_ENROLLED" -> "MFA_NOT_ENROLLED"
      [] code = "INVALID_ENROLLMENT_TOKEN" -> "JWT_INVALID"
      [] code = "COULD_NOT_VALIDATE" -> "NOT_AUTHORIZED"
      [] OTHER -> "UNSPECIFIED"

(* ------------------------- the operations ------------------------------ *)
PagedOps == {"services", "edge_routers", "sessions"}

Ops == {"version", "login", "enroll", "well_known_certs",
        "current_identity", "current_api_session", "logout", "services_update",
        "service", "session", "create_session",
        "pr_post", "pr_post_bulk",
        "login_mfa", "post_mfa", "get_mfa", "delete_mfa", "post_mfa_verify",
        "get_mfa_recovery_codes", "post_mfa_recovery_codes",
        "extend_cert_authenticator", "verify_extend_cert_authenticator",
        "create_api_certificate"} \cup PagedOps

VerifiesSession_logout_unchecked(op) ==
    op \notin {"version", "login", "enroll", "well_known_certs", "logout"}

\* the operations whose function begins with verify_api_session
VerifiesSession(op) == op \notin {"version", "login", "enroll", "well_known_certs"}

\* the operations that pass a body_parse_fn to MAKE_RESP
HasParser(op) ==
    op \notin {"logout", "well_known_certs", "login_mfa", "post_mfa", "delete_mfa",
               "post_mfa_verify", "post_mfa_recovery_codes",
               "verify_extend_cert_authenticator"}

\* resp->ctrl_cb as the operation sets it (prepare_resp sets ctrl_default_cb)
CtrlCbOf(op) ==
    CASE op = "version" -> "ctrl_version_cb"
      [] op \in {"login", "current_api_session"} -> "ctrl_login_cb"
      [] op = "logout" -> "ctrl_logout_cb"
      [] op = "service" -> "ctrl_service_cb"
      [] OTHER -> "ctrl_default_cb"

\* the tlsuv_http_resp_cb the operation gives to start_request
HttpCbOf(op) == IF op = "enroll" THEN "ctrl_enroll_http_cb" ELSE "ctrl_resp_cb"

\* the body_parse_fn the operation passes to MAKE_RESP; the decoders of
\* opaque objects are one value
ParserOf(op) ==
    CASE ~HasParser(op) -> NULL
      [] op \in PagedOps \cup {"service"} -> "parse_array"
      [] op \in {"login", "current_api_session"} -> "parse_ziti_api_session_ptr"
      [] op = "version" -> "parse_ziti_version_ptr"
      [] OTHER -> "parse_obj_ptr"

BasePathOf(op) ==
    CASE op = "services" -> "/services"
      [] op = "edge_routers" -> "/current-identity/edge-routers"
      [] op = "sessions" -> "/sessions"
      [] OTHER -> NULL

(* ------------------------- response contexts --------------------------- *)
\* A slot holds one struct ctrl_resp and the tlsuv request it is the data
\* of. Fields of the struct keep their names; the others are
\*   state    "free"  no context in this slot
\*            "sent"  request handed to the HTTP client, no headers yet
\*            "body"  headers received, body_cb installed
\*            "freed" free(resp) ran in the step just taken
\*            "leaked" the context finished in the step just taken without free(resp)
\*   http_cb  the tlsuv_http_resp_cb given to start_request
\*   offset   the offset of the page request in flight
\*   cap      slots allocated for resp_array (0: resp_array == NULL)
\*   ub       a write went past the end of resp_array
\*   ncb      how often the user's callback was invoked for this context
\*   needs_session  the operation began with verify_api_session
\*   start_url  the URL the HTTP client targeted when the operation was called
\*   seen_address  the last ziti-ctrl-address header the context received
\*   srv_total, srv_honest  what the server did so far (first totalCount it
\*            reported; every page so far had that totalCount, the requested
\*            offset and limit and the elements they select)
\* The body bytes are not kept: what the body parses to is an input of the
\* end-of-body event.
FreeSlot ==
    [state |-> "free", ctx |-> [k |-> NULL, n |-> 0],
     status |-> 0, received |-> 0, resp_text_plain |-> FALSE,
     paging |-> FALSE, base_path |-> NULL, limit |-> 0, total |-> 0, recd |-> 0,
     resp_array |-> <<>>, cap |-> 0,
     body_parse_func |-> NULL, ctrl_cb |-> NULL, http_cb |-> NULL,
     new_address |-> NULL,
     ncb |-> 0, ub |-> FALSE, offset |-> 0, needs_session |-> FALSE,
     start_url |-> NULL, seen_address |-> NULL,
     srv_total |-> -1, srv_honest |-> TRUE]

prepare_resp(i, parser) ==
    [FreeSlot EXCEPT !.state = "sent", !.ctx = UserCtx(i),
                     !.body_parse_func = parser, !.ctrl_cb = "ctrl_default_cb"]

InFlight(r) == r.state \in {"sent", "body"}
Finished(r) == r.state \in {"freed", "leaked"}

NoCall == [op |-> NULL, ctx |-> [k |-> NULL, n |-> 0], created |-> FALSE]
\* tick: what ziti_send_posture_data found (skipped, its locals
\* new_session_id and new_controller_instance, the instance id recorded
\* before it ran, the failed ids whose probe replied the cached body,
\* must_send_every_time as it was when the tick began);
\* replied: the probe replies collected; posted: the posture submissions
\* handed to the controller client; done: the submission whose callback
\* ran; refresh: ziti_services_refresh was called; redirects: the URLs the
\* redirect observer was called with; rebinds: for every context that
\* reached ctrl_default_cb holding a new address, the URL then current (from),
\* the address held (to), whether it was adopted and the observer called,
\* and how often the context's callback had been invoked by then (ncb);
\* dispatched: the keys of the probes the tick invoked, in order;
\* stale: the contexts whose user callback was invoked after ctrl->url had
\* been freed
NoTick == [skipped |-> FALSE, new_session_id |-> FALSE, new_controller_instance |-> FALSE,
           prev_instance |-> NULL, due |-> {}, every_time |-> FALSE]
NoPost == [path |-> NULL, ids |-> {}]
\* page: the page of a paged operation that ctrl_body_cb appended: its
\* context, the envelope's meta.pagination and error code, the number of
\* elements, resp_array (had) and resp->total (prev_total) as they were
\* before, and whether it answered the first request of the operation
NoPage == [slot |-> 0, total |-> 0, offset |-> 0, limit |-> 0, n |-> 0,
           had |-> <<>>, prev_total |-> 0, error |-> NULL, first |-> FALSE]
\* eof: the body that ended: its context, the status of the response,
\* whether the response is taken as plain text, whether the body parsed as
\* an envelope, whether the envelope held data and the decoder accepted it
NoEof == [slot |-> 0, status |-> 0, text_plain |-> FALSE, json |-> FALSE,
          data |-> FALSE, decodes |-> FALSE]
\* reply: the key and the body of the last probe reply handed to
\* ziti_collect_pr
NoReply == [key |-> NULL, obj |-> [id |-> NULL, typeId |-> NULL, path |-> NULL, data |-> NULL]]
NoEvents == [kind |-> "none", call |-> NoCall, cbs |-> <<>>, started |-> <<>>,
             redirects |-> <<>>, rebinds |-> <<>>, cancelled |-> {}, dispatched |-> <<>>,
             page |-> NoPage, stale |-> {}, eof |-> NoEof, reply |-> NoReply,
             tick |-> NoTick, replied |-> {}, posted |-> <<>>,
             done |-> [post |-> NoPost, err |-> NullErr], refresh |-> FALSE]

\* the user's callback (resp->resp_cb, or the cb given to
\* verify_api_session) is invoked with (obj, err, ctx)
UserCb(w, i, obj, err, ctx) ==
    [w EXCEPT !.reqs[i].ncb = @ + 1,
              !.ev.cbs = Append(@, [slot |-> i, obj |-> obj, err |-> err, ctx |-> ctx]),
              !.ev.stale = IF w.ctrl.url = NULL THEN @ \cup {i} ELSE @]

\* a finished context: only its history is left
Retire(r, st) ==
    [FreeSlot EXCEPT !.state = st, !.ctx = r.ctx, !.ncb = r.ncb, !.ub = r.ub,
                     !.paging = r.paging, !.limit = r.limit,
                     !.needs_session = r.needs_session,
                     !.ctrl_cb = r.ctrl_cb,
                     !.start_url = r.start_url, !.seen_address = r.seen_address,
                     !.srv_total = r.srv_total, !.srv_honest = r.srv_honest]

start_request(w, i, path, off) ==
    [w EXCEPT !.reqs[i].state = "sent",
              !.reqs[i].offset = off,
              !.ev.started = Append(@, [slot |-> i, path |-> path, offset |-> off,
                                        limit |-> w.reqs[i].limit,
                                        needs_session |-> w.reqs[i].needs_session,
                                        token |-> w.ctrl.api_session_token,
                                        zt_session |-> w.ctrl.zt_session,
                                        url |-> w.ctrl.client_url])]

(* ----------------------- terminal callbacks ----------------------------- *)
\* the entry of ev.rebinds for the context of slot i
RebindNote(w, i, adopt) ==
    [slot |-> i, from |-> w.ctrl.url, to |-> w.reqs[i].new_address,
     adopted |-> adopt, notified |-> adopt /\ w.ctrl.redirect_cb,
     ncb |-> w.reqs[i].ncb]

ctrl_default_cb_always_adopts(w, i, s, e) ==
    LET r == w.reqs[i]
        w1 == UserCb(w, i, s, e, r.ctx)
        adopt == r.new_address # NULL
        w2 == IF adopt
              THEN [w1 EXCEPT !.ctrl.url = r.new_address,
                              !.ctrl.client_url = r.new_address,
                              !.ev.redirects = IF w1.ctrl.redirect_cb
                                               THEN Append(@, r.new_address) ELSE @,
                              !.ev.rebinds = Append(@, RebindNote(w1, i, adopt))]
              ELSE w1
    IN [w2 EXCEPT !.reqs[i] = Retire(@, "freed")]

\* ctrl_default_cb: the user's callback, then the rebind, then free(resp)
ctrl_default_cb(w, i, s, e) ==
    LET r == w.reqs[i]
        w1 == UserCb(w, i, s, e, r.ctx)
        adopt == r.new_address # NULL /\ r.new_address # w1.ctrl.url
        w2 == IF adopt
              THEN [w1 EXCEPT !.ctrl.url = r.new_address,
                              !.ctrl.client_url = r.new_address,
                              !.ev.redirects = IF w1.ctrl.redirect_cb
                                               THEN Append(@, r.new_address) ELSE @]
              ELSE w1
        w3 == IF r.new_address # NULL
              THEN [w2 EXCEPT !.ev.rebinds = Append(@, RebindNote(w1, i, adopt))]
              ELSE w2
    IN [w3 EXCEPT !.reqs[i] = Retire(@, "freed")]

ctrl_version_cb(w, i, v, e) ==
    LET c == w.ctrl
        c2 == IF v # NullObj
              THEN [c EXCEPT !.version = "cached",
                             !.path_prefix = IF v.val # NULL THEN v.val ELSE @]
              ELSE c
    IN ctrl_default_cb([w EXCEPT !.ctrl = c2], i, v, e)

ziti_ctrl_clear_api_session(c) ==
    [c EXCEPT !.api_session_token = NULL,
              !.zt_session = IF c.client THEN NULL ELSE @]

ctrl_login_cb_keeps_token_on_error(w, i, s, e) ==
    LET c2 == IF s # NullObj
              THEN [w.ctrl EXCEPT !.api_session_token = s.val, !.zt_session = s.val]
              ELSE w.ctrl
    IN ctrl_default_cb([w EXCEPT !.ctrl = c2], i, s, e)

ctrl_login_cb(w, i, s, e) ==
    LET c1 == IF e # NullErr THEN ziti_ctrl_clear_api_session(w.ctrl) ELSE w.ctrl
        c2 == IF s # NullObj
              THEN [c1 EXCEPT !.api_session_token = s.val, !.zt_session = s.val]
              ELSE c1
    IN ctrl_default_cb([w EXCEPT !.ctrl = c2], i, s, e)

ctrl_logout_cb_keeps_header(w, i, s, e) ==
    ctrl_default_cb([w EXCEPT !.ctrl.api_session_token = NULL], i, s, e)

ctrl_logout_cb(w, i, s, e) ==
    ctrl_default_cb([w EXCEPT !.ctrl.api_session_token = NULL,
                              !.ctrl.zt_session = NULL], i, s, e)

\* services != NULL ? services[0] : NULL (services[0] is the terminator of
\* an empty array)
ctrl_service_cb(w, i, services, e) ==
    LET s == IF services # NullObj /\ Len(services.items) > 0
             THEN [kind |-> "obj", items |-> <<Head(services.items)>>, val |-> NULL]
             ELSE NullObj
    IN ctrl_default_cb(w, i, s, e)

\* enroll_pem_cb calls the user's callback and nothing else: the context is
\* not freed and a new address it holds is not adopted
enroll_pem_cb(w, i, body, err) ==
    LET er == [kind |-> "enrollment_resp", items |-> <<>>, val |-> body.val]
        w1 == UserCb(w, i, er, err, w.reqs[i].ctx)
    IN [w1 EXCEPT !.reqs[i] = Retire(@, "leaked")]

\* resp->ctrl_cb(resp_obj, cr.error, resp)
InvokeCtrlCb(w, i, obj, err) ==
    LET cb == w.reqs[i].ctrl_cb IN
    CASE cb = "ctrl_version_cb" -> ctrl_version_cb(w, i, obj, err)
      [] cb = "ctrl_login_cb" -> ctrl_login_cb(w, i, obj, err)
      [] cb = "ctrl_logout_cb" -> ctrl_logout_cb(w, i, obj, err)
      [] cb = "ctrl_service_cb" -> ctrl_service_cb(w, i, obj, err)
      [] cb = "enroll_pem_cb" -> enroll_pem_cb(w, i, obj, err)
      [] OTHER -> ctrl_default_cb(w, i, obj, err)

(* ------------------------------ paging --------------------------------- *)
ctrl_paging_req_advances_by_limit(w, i) ==
    LET r == w.reqs[i]
        lim == IF r.limit = 0 THEN w.ctrl.page_size ELSE r.limit
    IN start_request([w EXCEPT !.reqs[i].limit = lim], i, r.base_path,
                     IF r.recd = 0 THEN 0 ELSE r.offset + lim)

ctrl_paging_req(w, i) ==
    LET r == w.reqs[i]
        lim == IF r.limit = 0 THEN w.ctrl.page_size ELSE r.limit
    IN start_request([w EXCEPT !.reqs[i].limit = lim], i, r.base_path, r.recd)

\* the elements a server returns for a page of k elements at offset off
PageItems(off, k) == [j \in 1..k |-> off + j]

AppendPage_prepend(r, total, items) ==
    [r EXCEPT !.total = Max(@, total), !.cap = Max(1, Max(@, total + 1)),
              !.resp_array = items \o @, !.recd = @ + Len(items), !.received = 0]

AppendPage_fresh_array_on_grow(r, total, items) ==
    LET grow == total > r.total
        cap1 == IF grow THEN total + 1 ELSE r.cap
        cap2 == IF cap1 = 0 THEN 1 ELSE cap1
        n == Len(items)
    IN [r EXCEPT !.total = IF grow THEN total ELSE @,
                 !.cap = cap2,
                 !.resp_array = IF grow THEN items ELSE @ \o items,
                 !.recd = @ + n,
                 !.ub = @ \/ (r.recd + n + 1 > cap2),
                 !.received = 0]

AppendPage_no_empty_alloc(r, total, items) ==
    LET grow == total > r.total
        cap1 == IF grow THEN total + 1 ELSE r.cap
        n == Len(items)
    IN [r EXCEPT !.total = IF grow THEN total ELSE @,
                 !.cap = cap1,
                 !.resp_array = @ \o items,
                 !.recd = @ + n,
                 !.ub = @ \/ (cap1 > 0 /\ r.recd + n + 1 > cap1),
                 !.received = 0]

\* ctrl_body_cb, the resp->paging block: the context after the page was
\* appended (cap is the number of slots of resp_array, 0 while it is NULL)
AppendPage(r, total, items) ==
    LET grow == total > r.total
        cap1 == IF grow THEN total + 1 ELSE r.cap
        cap2 == IF cap1 = 0 THEN 1 ELSE cap1
        n == Len(items)
    IN [r EXCEPT !.total = IF grow THEN total ELSE @,
                 !.cap = cap2,
                 !.resp_array = @ \o items,
                 !.recd = @ + n,
                 !.ub = @ \/ (r.recd + n + 1 > cap2),
                 !.received = 0]

(* --------------------------- the body callback ------------------------- *)
\* what resp->body_parse_func yields for data it accepts
DecodedObj(r, b) ==
    CASE r.body_parse_func = "parse_array" ->
            [kind |-> "array", items |-> PageItems(r.offset, b.n), val |-> NULL]
      [] r.body_parse_func = "parse_ziti_api_session_ptr" ->
            [kind |-> "session", items |-> <<>>, val |-> b.val]
      [] r.body_parse_func = "parse_ziti_version_ptr" ->
            [kind |-> "version", items |-> <<>>, val |-> b.val]
      [] OTHER -> [kind |-> "obj", items |-> <<>>, val |-> NULL]

EnvelopeError_no_http_code(code, message, status) ==
    [err |-> code_to_error(code), code |-> code, http_code |-> 0, message |-> message]

\* cr.error once ctrl_body_cb has passed it through code_to_error and set
\* http_code
EnvelopeError(code, message, status) ==
    [err |-> code_to_error(code), code |-> code, http_code |-> status, message |-> message]

\* len == UV_EOF
BodyEof(w, i, b) ==
    LET r == w.reqs[i] IN
    IF r.resp_text_plain /\ r.status < 300
    THEN InvokeCtrlCb(w, i, [kind |-> "text", items |-> <<>>, val |-> "body"], NullErr)
    ELSE IF ~b.json
    THEN InvokeCtrlCb(w, i, NullObj,
                      EnvelopeError("INVALID_CONTROLLER_RESPONSE", "status text", r.status))
    ELSE LET perr == IF b.error = NULL THEN NullErr
                     ELSE EnvelopeError(IF b.error = NoCode THEN NULL ELSE b.error,
                                        "server message", r.status)
         IN
         IF r.body_parse_func # NULL /\ b.data
         THEN IF ~b.decodes
              THEN InvokeCtrlCb(w, i, NullObj,
                                EnvelopeError("INVALID_CONTROLLER_RESPONSE",
                                              "unexpected response JSON", r.status))
              ELSE IF r.paging
              THEN LET last_page == b.total <= b.offset + b.limit
                       honest == /\ r.srv_honest
                                 /\ (r.srv_total = -1 \/ r.srv_total = b.total)
                                 /\ b.offset = r.offset /\ b.limit = r.limit
                                 /\ b.n = Min(r.limit, Max(0, b.total - r.offset))
                       r1 == [AppendPage(r, b.total, PageItems(r.offset, b.n))
                                 EXCEPT !.srv_honest = honest,
                                        !.srv_total = IF r.srv_total = -1 THEN b.total ELSE @]
                       w1 == [w EXCEPT !.reqs[i] = r1,
                                       !.ev.page = [slot |-> i, total |-> b.total,
                                                    offset |-> b.offset, limit |-> b.limit,
                                                    n |-> b.n, had |-> r.resp_array,
                                                    prev_total |-> r.total,
                                                    error |-> b.error,
                                                    first |-> r.srv_total = -1]]
                   IN IF ~last_page
                      THEN ctrl_paging_req(w1, i)
                      ELSE InvokeCtrlCb(w1, i,
                               IF r1.cap = 0 THEN NullObj
                               ELSE [kind |-> "array", items |-> r1.resp_array,
                                     val |-> NULL],
                               perr)
              ELSE InvokeCtrlCb(w, i, DecodedObj(r, b), perr)
         ELSE InvokeCtrlCb(w, i, NullObj, perr)

BodyFail_silent(w, i, len) == [w EXCEPT !.reqs[i] = Retire(@, "leaked")]

\* len < 0 other than UV_EOF: resp->resp_cb(NULL, &err, resp); resp is
\* passed where the user's context belongs and is not freed
BodyFail(w, i, len) ==
    LET err == IF len = "ECANCELED"
               THEN [err |-> "DISABLED", code |-> "CONTEXT_DISABLED",
                     http_code |-> 0, message |-> "uv_strerror"]
               ELSE [err |-> "CONTROLLER_UNAVAILABLE", code |-> "CONTROLLER_UNAVAILABLE",
                     http_code |-> 0, message |-> "uv_strerror"]
        w1 == UserCb(w, i, NullObj, err, RespPtr(i))
    IN [w1 EXCEPT !.reqs[i] = Retire(@, "leaked")]

ctrl_body_cb(w, i, len, b) ==
    CASE len = "chunk" -> [w EXCEPT !.reqs[i].received = @ + 1]
      [] len = "EOF" ->
            BodyEof([w EXCEPT !.ev.eof = [slot |-> i, status |-> w.reqs[i].status,
                                          text_plain |-> w.reqs[i].resp_text_plain,
                                          json |-> b.json, data |-> b.data,
                                          decodes |-> b.decodes]], i, b)
      [] OTHER -> BodyFail(w, i, len)

(* -------------------------- the response callback ---------------------- *)
RespFail_unavailable(w, i, uv_err) ==
    ctrl_default_cb([w EXCEPT !.reqs[i].status = -1], i, NullObj,
                    [err |-> "CONTROLLER_UNAVAILABLE", code |-> "CONTROLLER_UNAVAILABLE",
                     http_code |-> 0, message |-> "uv_strerror"])

\* the ziti_error ctrl_resp_cb builds for r->code < 0
TransportError(uv_err) ==
    IF uv_err = "ECANCELED"
    THEN [err |-> "DISABLED", code |-> "ziti_errorstr(ZITI_DISABLED)",
          http_code |-> 0, message |-> "uv_strerror"]
    ELSE [err |-> "CONTROLLER_UNAVAILABLE", code |-> "CONTROLLER_UNAVAILABLE",
          http_code |-> 0, message |-> "uv_strerror"]

\* r->code < 0: the failure goes to ctrl_default_cb, not to resp->ctrl_cb
RespFail(w, i, uv_err) ==
    ctrl_default_cb([w EXCEPT !.reqs[i].status = -1], i, NullObj, TransportError(uv_err))

\* the ziti-instance-id header: kept when it differs from the id on record
InstanceIdHeader(c, instance_id) ==
    IF instance_id # NULL /\ (c.instance_id = NULL \/ instance_id # c.instance_id)
    THEN [c EXCEPT !.instance_id = instance_id]
    ELSE c

\* r->code >= 0: the headers
RespHeaders(w, i, code, h) ==
    [w EXCEPT !.reqs[i].status = code,
              !.reqs[i].state = "body",
              !.reqs[i].new_address = IF h.new_addr # NULL THEN h.new_addr ELSE @,
              !.reqs[i].seen_address = IF h.new_addr # NULL THEN h.new_addr ELSE @,
              !.ctrl = InstanceIdHeader(@, h.instance_id)]

ctrl_resp_cb(w, i, code, h) ==
    IF code < 0 THEN RespFail(w, i, h.uv_err) ELSE RespHeaders(w, i, code, h)

ctrl_enroll_http_cb(w, i, code, h) ==
    IF code < 0
    THEN ctrl_resp_cb(w, i, code, h)
    ELSE IF h.pem
         THEN ctrl_resp_cb([w EXCEPT !.reqs[i].resp_text_plain = TRUE,
                                     !.reqs[i].ctrl_cb = "enroll_pem_cb"], i, code, h)
         ELSE ctrl_resp_cb(w, i, code, h)

\* the tlsuv_http_resp_cb given to start_request
InvokeHttpCb(w, i, code, h) ==
    IF w.reqs[i].http_cb = "ctrl_enroll_http_cb"
    THEN ctrl_enroll_http_cb(w, i, code, h)
    ELSE ctrl_resp_cb(w, i, code, h)

(* --------------------- calling an operation ---------------------------- *)
ERROR_CODE_UNAUTHORIZED == "UNAUTHORIZED"
ERROR_MSG_NO_API_SESSION_TOKEN == "no api session token set for ziti_controller"

\* verify_api_session: with no token the caller's callback runs at once and
\* the operation returns
verify_api_session(c) ==
    IF c.api_session_token = NULL
    THEN [ok |-> FALSE,
          obj |-> NullObj,
          err |-> [err |-> "AUTH_FAILED", code |-> ERROR_CODE_UNAUTHORIZED,
                   http_code |-> 0, message |-> ERROR_MSG_NO_API_SESSION_TOKEN]]
    ELSE [ok |-> TRUE, obj |-> NullObj, err |-> NullErr]

\* the part of ziti_ctrl_<op> after the session check: MAKE_RESP, the
\* fields the operation sets, and the first request
IssueRequest(w, i, op) ==
    LET r0 == [prepare_resp(i, ParserOf(op))
                  EXCEPT !.ctrl_cb = CtrlCbOf(op),
                         !.http_cb = HttpCbOf(op),
                         !.paging = (op \in PagedOps),
                         !.base_path = BasePathOf(op),
                         !.resp_text_plain = (op = "well_known_certs"),
                         !.needs_session = VerifiesSession(op),
                         !.start_url = w.ctrl.client_url]
        w1 == [w EXCEPT !.reqs[i] = r0]
    IN IF op \in PagedOps THEN ctrl_paging_req(w1, i) ELSE start_request(w1, i, op, 0)

\* the contexts finished in the last step are gone
Purge(rs) == [i \in Slots |-> IF Finished(rs[i]) THEN FreeSlot ELSE rs[i]]

World(kind) ==
    [ctrl |-> ctrl, reqs |-> Purge(reqs), ev |-> [NoEvents EXCEPT !.kind = kind],
     ztx |-> ztx, posts |-> posts, work |-> work, hist |-> hist]

Commit(w) ==
    \E x \in {w} :
        /\ ctrl' = x.ctrl
        /\ reqs' = x.reqs
        /\ ev' = x.ev
        /\ ztx' = x.ztx
        /\ posts' = x.posts
        /\ work' = x.work
        /\ hist' = x.hist
        /\ UNCHANGED <<service, log>>

\* ziti_ctrl_<op>(ctrl, ..., cb, ctx), for which the caller's context is
\* written UserCtx(i)
ApiCall(op, i) ==
    LET w == World("call")
        v == IF VerifiesSession(op) THEN verify_api_session(ctrl)
             ELSE [ok |-> TRUE, obj |-> NullObj, err |-> NullErr]
        call == [op |-> op, ctx |-> UserCtx(i), created |-> v.ok]
    IN /\ w.reqs[i].state = "free"
       /\ \A j \in 1..(i - 1) : w.reqs[j].state # "free"
       /\ IF ~v.ok
          THEN Commit([w EXCEPT !.ev.call = call,
                                !.ev.cbs = <<[slot |-> 0, obj |-> v.obj, err |-> v.err,
                                              ctx |-> UserCtx(i)]>>])
          ELSE Commit(IssueRequest([w EXCEPT !.ev.call = call], i, op))

(* ------------------------- events of the HTTP client ------------------- *)
NoHdr == [new_addr |-> NULL, instance_id |-> NULL, pem |-> FALSE, uv_err |-> NULL]

\* the headers of a response to the request of context r, with the
\* ziti-ctrl-address values and ziti-instance-id values the server uses
HeaderSets(r, addrs, insts) ==
    [new_addr : {NULL} \cup addrs, instance_id : {NULL} \cup insts,
     pem : IF r.http_cb = "ctrl_enroll_http_cb" THEN BOOLEAN ELSE {FALSE},
     uv_err : {NULL}]

\* what a body parses to: whether it is an envelope (json), the envelope's
\* error code, whether it has data and whether the decoder accepts the data,
\* the envelope's meta.pagination (total, offset, limit), the number of
\* elements in a decoded array (n) and the value of a decoded object (val)
NoBody == [json |-> FALSE, error |-> NULL, data |-> FALSE, decodes |-> FALSE,
           total |-> 0, offset |-> 0, limit |-> 0, n |-> 0, val |-> NULL]

\* the number of elements a server that follows the paging protocol
\* returns for the request in flight when it holds t elements
HonestCount(r, t) == Min(r.limit, Max(0, t - r.offset))

\* the bodies a server may send in answer to the request of context r, with
\* the error codes the server uses; a
\* server that is not "wild" answers a page request with a page of the
\* paging protocol or with an error; a wild server reports any totalCount,
\* echoes the requested offset or reports offset 0, and returns any number
\* of elements up to the limit, as long as the walk has received no more
\* than MaxTotal + 1 elements
BodySets(r, wild, codes) ==
    LET errs == {NULL} \cup codes
        vals == CASE r.body_parse_func = "parse_ziti_api_session_ptr" -> Tokens
                  [] r.body_parse_func = "parse_ziti_version_ptr" -> {NULL, "/edge/v1"}
                  [] OTHER -> {NULL}
        decoded(e, t, k, v) == [json |-> TRUE, error |-> e, data |-> TRUE, decodes |-> TRUE,
                                total |-> t, offset |-> r.offset, limit |-> r.limit,
                                n |-> k, val |-> v]
        pages == IF wild
                 THEN {[decoded(e, t, k, NULL) EXCEPT !.offset = o] :
                          e \in {NULL, "NOT_FOUND"}, t \in 0..MaxTotal,
                          k \in 0..Min(r.limit, MaxTotal + 1 - r.recd), o \in {0, r.offset}}
                 ELSE {decoded(NULL, t, HonestCount(r, t), NULL) :
                          t \in IF r.srv_total = -1 THEN 0..MaxTotal ELSE {r.srv_total}}
    IN {NoBody}
       \cup {[NoBody EXCEPT !.json = TRUE, !.error = e] : e \in errs}
       \cup {[NoBody EXCEPT !.json = TRUE, !.error = e, !.data = TRUE] : e \in errs}
       \cup (CASE r.body_parse_func = NULL -> {}
               [] r.paging -> pages
               [] r.body_parse_func = "parse_array" ->
                     {decoded(e, 0, k, NULL) : e \in errs, k \in 0..1}
               [] OTHER -> {decoded(e, 0, 0, v) : e \in errs, v \in vals})

\* the request fails before any header: resp_cb with r->code < 0
HttpFail(i) ==
    /\ reqs[i].state = "sent"
    /\ Commit(InvokeHttpCb(World("http_fail"), i, -1, [NoHdr EXCEPT !.uv_err = "EIO"]))

\* the headers arrive: resp_cb with the status
HttpHeaders(i, codes, addrs, insts) ==
    /\ reqs[i].state = "sent"
    /\ \E code \in codes, h \in HeaderSets(reqs[i], addrs, insts) :
          Commit(InvokeHttpCb(World("http_headers"), i, code, h))

\* body_cb with len > 0
HttpChunk(i) ==
    /\ reqs[i].state = "body"
    /\ reqs[i].received < MaxChunks
    /\ Commit(ctrl_body_cb(World("http_chunk"), i, "chunk", NoBody))

\* body_cb with UV_EOF
HttpEof(i, wild, codes) ==
    /\ reqs[i].state = "body"
    /\ \E b \in BodySets(reqs[i], wild, codes) : Commit(ctrl_body_cb(World("http_eof"), i, "EOF", b))

\* body_cb with an error
HttpBodyFail(i) ==
    /\ reqs[i].state = "body"
    /\ Commit(ctrl_body_cb(World("http_body_fail"), i, "EIO", NoBody))

(* ------------------------------ cancel --------------------------------- *)
\* tlsuv_http_cancel_all: every request not yet finished fails with
\* UV_ECANCELED, through resp_cb before the headers and through body_cb after
RECURSIVE CancelFrom(_, _)
CancelFrom(w, i) ==
    IF i > MaxReqs THEN w
    ELSE LET r == w.reqs[i]
             w1 == CASE r.state = "sent" ->
                            InvokeHttpCb(w, i, -1, [NoHdr EXCEPT !.uv_err = "ECANCELED"])
                      [] r.state = "body" -> ctrl_body_cb(w, i, "ECANCELED", NoBody)
                      [] OTHER -> w
         IN CancelFrom(w1, i + 1)

ziti_ctrl_cancel ==
    LET w == World("cancel")
        inflight == {[slot |-> i, state |-> w.reqs[i].state, recd |-> w.reqs[i].recd] :
                        i \in {j \in Slots : InFlight(w.reqs[j])}}
    IN Commit(CancelFrom([w EXCEPT !.ev.cancelled = inflight], 1))

\* ziti_ctrl_close: the cached version, token, instance id and URL are
\* freed, then tlsuv_http_close fails every request not yet finished with
\* UV_ECANCELED, as tlsuv_http_cancel_all does, and closes the client, and
\* ctrl->client is set to NULL
ziti_ctrl_close ==
    LET w == World("close")
        inflight == {[slot |-> i, state |-> w.reqs[i].state, recd |-> w.reqs[i].recd] :
                        i \in {j \in Slots : InFlight(w.reqs[j])}}
        w1 == [w EXCEPT !.ctrl.version = NULL, !.ctrl.api_session_token = NULL,
                        !.ctrl.instance_id = NULL, !.ctrl.url = NULL,
                        !.ev.cancelled = inflight]
        w2 == CancelFrom(w1, 1)
    IN /\ ctrl.client
       /\ Commit([w2 EXCEPT !.ctrl.client = FALSE, !.ctrl.client_url = NULL,
                            !.ctrl.zt_session = NULL])

(* ------------------------ the other entry points ----------------------- *)
ziti_ctrl_init ==
    [url |-> "https://a.example", client_url |-> "https://a.example",
     api_session_token |-> NULL, zt_session |-> NULL, instance_id |-> NULL,
     page_size |-> DEFAULT_PAGE_SIZE, version |-> NULL, path_prefix |-> NULL,
     redirect_cb |-> FALSE, client |-> TRUE]

ziti_ctrl_set_page_size ==
    \E size \in 1..MaxPageSize :
        Commit([World("set_page_size") EXCEPT !.ctrl.page_size = size])

ClearApiSession ==
    Commit([World("clear_api_session") EXCEPT !.ctrl = ziti_ctrl_clear_api_session(@)])

(* ---------------------------- posture engine --------------------------- *)
PC_DOMAIN_TYPE == "DOMAIN"
PC_OS_TYPE == "OS"
PC_MAC_TYPE == "MAC"
PC_PROCESS_TYPE == "PROCESS"
PC_PROCESS_MULTI_TYPE == "PROCESS_MULTI"


EmptyMap == [k \in {} |-> NULL]
MapSet(m, k, v) == [x \in DOMAIN m \cup {k} |-> IF x = k THEN v ELSE m[x]]
MapRemove(m, ks) == [x \in DOMAIN m \ ks |-> m[x]]

\* struct posture_checks as ziti_posture_init leaves it (active_work is the
\* set of queued process probes that are not cancelled)
ziti_posture_init ==
    [allocated |-> TRUE,
     previous_api_session_id |-> NULL, controller_instance_id |-> NULL,
     must_send_every_time |-> TRUE, must_send |-> FALSE,
     responses |-> EmptyMap, error_states |-> EmptyMap]

\* the fields of struct ziti_ctx that posture.c reads and writes; services
\* is the set of posture queries of the services' posture_query_map; fault
\* is set when the process has died
NewZtx ==
    [api_session |-> NULL, api_session_state |-> "Unauthenticated",
     no_bulk_posture_response_api |-> FALSE,
     services |-> {},
     posture_checks |-> ziti_posture_init,
     fault |-> NULL]

\* a posture response body: the JSON of a ziti_pr_*_req
NoJson == [id |-> NULL, typeId |-> NULL, path |-> NULL, data |-> NULL]

\* pr_info as calloc leaves it
NewInfo == [obj |-> NoJson, should_send |-> FALSE, pending |-> FALSE, obsolete |-> FALSE]

NoQuery == [type |-> NULL, id |-> NULL, timeout |-> 0, paths |-> {}]

get_resp_info(w, id) ==
    IF id \in DOMAIN w.ztx.posture_checks.responses
    THEN w
    ELSE [w EXCEPT !.ztx.posture_checks.responses = MapSet(@, id, NewInfo)]

\* Both take the address of ztx->posture_checks->error_states without a
\* look at ztx->posture_checks: with no bundle model_map_set is handed an
\* address in the page at 0 and the process stops.
ziti_pr_set_info_errored(w, id) ==
    IF ~w.ztx.posture_checks.allocated THEN [w EXCEPT !.ztx.fault = "SIGSEGV"]
    ELSE [w EXCEPT !.ztx.posture_checks.error_states = MapSet(@, id, TRUE)]

ziti_pr_set_info_success(w, id) ==
    IF ~w.ztx.posture_checks.allocated THEN [w EXCEPT !.ztx.fault = "SIGSEGV"]
    ELSE [w EXCEPT !.ztx.posture_checks.error_states = MapSet(@, id, FALSE)]

ziti_pr_is_info_errored(pc, id) ==
    id \in DOMAIN pc.error_states /\ pc.error_states[id]

ziti_collect_pr_no_retry(w, key, obj) ==
    LET pc == w.ztx.posture_checks IN
    IF ~pc.allocated \/ key \notin DOMAIN pc.responses THEN w
    ELSE LET changed == pc.responses[key].obj # obj
         IN [w EXCEPT !.ztx.posture_checks.responses[key] =
                          [@ EXCEPT !.pending = FALSE,
                                    !.obj = obj,
                                    !.should_send = pc.must_send_every_time \/ changed],
                      !.ev.replied = @ \cup {[id |-> key, changed |-> changed,
                                              errored |-> ziti_pr_is_info_errored(pc, key)]}]

ziti_collect_pr_always_send(w, key, obj) ==
    LET pc == w.ztx.posture_checks IN
    IF ~pc.allocated \/ key \notin DOMAIN pc.responses THEN w
    ELSE LET changed == pc.responses[key].obj = NoJson \/ pc.responses[key].obj # obj
         IN [w EXCEPT !.ztx.posture_checks.responses[key] =
                          [@ EXCEPT !.pending = FALSE, !.obj = obj, !.should_send = TRUE],
                      !.ev.replied = @ \cup {[id |-> key, changed |-> changed,
                                              errored |-> ziti_pr_is_info_errored(pc, key)]}]

\* a probe's reply, as the handlers pass it on
ziti_collect_pr(w, key, obj) ==
    LET pc == w.ztx.posture_checks IN
    IF ~pc.allocated THEN w
    ELSE IF key \in DOMAIN pc.responses
    THEN LET cur == pc.responses[key]
             changed == cur.obj = NoJson \/ cur.obj # obj
             errored == ziti_pr_is_info_errored(pc, key)
         IN [w EXCEPT !.ztx.posture_checks.responses[key] =
                          [@ EXCEPT !.pending = FALSE,
                                    !.obj = IF changed THEN obj ELSE @,
                                    !.should_send = pc.must_send_every_time \/ errored \/ changed],
                      !.ev.replied = @ \cup {[id |-> key, changed |-> changed,
                                              errored |-> errored]}]
    ELSE w

\* the handlers make the body (the JSON of the request object) and pass it
\* on under the type, or the path of a process
Reply(w, key, obj) ==
    ziti_collect_pr([w EXCEPT !.ev.reply = [key |-> key, obj |-> obj]], key, obj)

ziti_pr_handle_mac(w, id, data) ==
    Reply(w, PC_MAC_TYPE, [id |-> id, typeId |-> PC_MAC_TYPE, path |-> NULL, data |-> data])

ziti_pr_handle_domain(w, id, data) ==
    Reply(w, PC_DOMAIN_TYPE,
          [id |-> id, typeId |-> PC_DOMAIN_TYPE, path |-> NULL, data |-> data])

ziti_pr_handle_os(w, id, data) ==
    Reply(w, PC_OS_TYPE, [id |-> id, typeId |-> PC_OS_TYPE, path |-> NULL, data |-> data])

ziti_pr_handle_process(w, id, path, data) ==
    Reply(w, path, [id |-> id, typeId |-> PC_PROCESS_TYPE, path |-> path, data |-> data])

\* the default probes: OS, MAC and domain answer before they return, the
\* process probe queues work on the loop
default_pq_domain(w, id, data) == ziti_pr_handle_domain(w, id, data)
default_pq_mac(w, id, data) == ziti_pr_handle_mac(w, id, data)
default_pq_os(w, id, data) == ziti_pr_handle_os(w, id, data)
default_pq_process(w, id, path) ==
    [w EXCEPT !.work = Append(@, [id |-> id, path |-> path, canceled |-> FALSE])]

(* ------------------------ posture submissions -------------------------- *)
BulkPath == "/posture-response-bulk"
ItemPath == "/posture-response"

\* The callbacks' calls of handle_pr_resp_timer_events and
\* ziti_services_refresh leave the posture engine's state alone; that they
\* were made is kept in ev.refresh.

ziti_pr_post_bulk_cb_keeps_bulk(w, err) ==
    LET pc == w.ztx.posture_checks IN
    IF ~pc.allocated THEN w
    ELSE IF err # NullErr
    THEN [w EXCEPT !.ztx.posture_checks.must_send = TRUE]
    ELSE [w EXCEPT !.ztx.posture_checks.must_send = FALSE, !.ev.refresh = TRUE]

ziti_pr_post_bulk_cb(w, err) ==
    LET pc == w.ztx.posture_checks IN
    IF ~pc.allocated THEN w
    ELSE IF err # NullErr
    THEN [w EXCEPT !.ztx.posture_checks.must_send = TRUE,
                   !.ztx.no_bulk_posture_response_api = IF err.http_code = 404 THEN TRUE ELSE @]
    ELSE [w EXCEPT !.ztx.posture_checks.must_send = FALSE, !.ev.refresh = TRUE]

\* pr_ctx->info->id is the id of the copy made when the body was submitted
ziti_pr_post_cb(w, id, err) ==
    IF err # NullErr
    THEN ziti_pr_set_info_errored(w, id)
    ELSE LET w1 == ziti_pr_set_info_success(w, id) IN
         IF w1.ztx.fault # NULL THEN w1 ELSE [w1 EXCEPT !.ev.refresh = TRUE]

\* the callback the controller client invokes for a posture submission
InvokePostCb(w, post, err) ==
    LET w1 == IF post.path = BulkPath
              THEN ziti_pr_post_bulk_cb(w, err)
              ELSE ziti_pr_post_cb(w, CHOOSE id \in post.ids : TRUE, err)
    IN [w1 EXCEPT !.ev.done = [post |-> post, err |-> err],
                  !.hist = IF post.path = BulkPath /\ err # NullErr /\ err.http_code # 404
                           THEN @ \cup post.ids ELSE @]

\* ziti_pr_post and ziti_pr_post_bulk: the session check, then the request
ziti_pr_post(w, post, objs) ==
    LET v == verify_api_session(w.ctrl) IN
    IF ~v.ok
    THEN InvokePostCb(w, post, v.err)
    ELSE [w EXCEPT !.posts = Append(@, post),
                   !.ev.posted = Append(@, [path |-> post.path, ids |-> post.ids,
                                            objs |-> objs])]

ShouldSend(pc) == {k \in DOMAIN pc.responses : pc.responses[k].should_send}

ziti_pr_send_bulk(w) ==
    LET pc == w.ztx.posture_checks
        ids == ShouldSend(pc)
    IN IF ids = {} THEN w
       ELSE ziti_pr_post(
                [w EXCEPT !.ztx.posture_checks.responses =
                              [k \in DOMAIN @ |-> IF k \in ids
                                                  THEN [@[k] EXCEPT !.should_send = FALSE]
                                                  ELSE @[k]],
                          !.hist = @ \ ids],
                [path |-> BulkPath, ids |-> ids],
                [k \in ids |-> pc.responses[k].obj])

RECURSIVE SendEach(_, _)
SendEach(w, ids) ==
    IF ids = {} THEN w
    ELSE LET k == CHOOSE x \in ids : TRUE
             info == w.ztx.posture_checks.responses[k]
             w1 == ziti_pr_post([w EXCEPT !.ztx.posture_checks.responses[k].should_send = FALSE,
                                         !.hist = @ \ {k}],
                                [path |-> ItemPath, ids |-> {k}],
                                [x \in {k} |-> info.obj])
         IN SendEach(w1, ids \ {k})

ziti_pr_send_individually(w) == SendEach(w, ShouldSend(w.ztx.posture_checks))

ziti_pr_send_never(w) == w

ziti_pr_send(w) ==
    IF w.ztx.no_bulk_posture_response_api
    THEN ziti_pr_send_individually(w)
    ELSE ziti_pr_send_bulk(w)

(* ------------------------------ the tick ------------------------------- *)
\* the key of the cache entry a query of the three fixed types is kept under
FixedTypes == {PC_DOMAIN_TYPE, PC_MAC_TYPE, PC_OS_TYPE}

\* the query the walk over the services leaves in domainInfo, macInfo and
\* osInfo, and in the processes map for a path; the services of the
\* applications modelled have one query for a type and for a path
InfoOf(services, type) ==
    LET qs == {q \in services : q.type = type}
    IN IF qs = {} THEN NoQuery ELSE CHOOSE q \in qs : TRUE

ProcessPaths(services) ==
    UNION {q.paths : q \in {x \in services :
                               x.type \in {PC_PROCESS_TYPE, PC_PROCESS_MULTI_TYPE}}}

ProcessInfoOf(services, path) ==
    CHOOSE q \in services :
        q.type \in {PC_PROCESS_TYPE, PC_PROCESS_MULTI_TYPE} /\ path \in q.paths

\* the probe of a key is invoked
InvokeProbe(w, key, q, probe) ==
    LET w1 == [w EXCEPT !.ev.dispatched = Append(@, key)]
    IN CASE key = PC_DOMAIN_TYPE -> default_pq_domain(w1, q.id, probe[key])
         [] key = PC_MAC_TYPE -> default_pq_mac(w1, q.id, probe[key])
         [] key = PC_OS_TYPE -> default_pq_os(w1, q.id, probe[key])
         [] OTHER -> default_pq_process(w1, q.id, key)

ProbeBlock_ignores_pending(w, key, q, probe) ==
    IF q = NoQuery THEN w
    ELSE LET w2 == get_resp_info(w, key)
             w4 == [w2 EXCEPT !.ztx.posture_checks.responses[key].obsolete = FALSE,
                              !.ztx.posture_checks.responses[key].pending = TRUE]
         IN InvokeProbe(w4, key, q, probe)

\* if (info->query != NULL) { ... }: the flag, the cache entry, the probe
ProbeBlock(w, key, q, probe) ==
    IF q = NoQuery THEN w
    ELSE LET w1 == IF q.timeout = NO_TIMEOUTS
                   THEN [w EXCEPT !.ztx.posture_checks.must_send_every_time = FALSE]
                   ELSE w
             w2 == get_resp_info(w1, key)
             w3 == [w2 EXCEPT !.ztx.posture_checks.responses[key].obsolete = FALSE]
         IN IF w3.ztx.posture_checks.responses[key].pending THEN w3
            ELSE InvokeProbe([w3 EXCEPT !.ztx.posture_checks.responses[key].pending = TRUE],
                             key, q, probe)

RECURSIVE ProcessBlocks(_, _)
ProcessBlocks(w, paths) ==
    IF paths = {} THEN w
    ELSE LET p == CHOOSE x \in paths : TRUE
         IN ProcessBlocks(ProbeBlock(w, p, ProcessInfoOf(w.ztx.services, p), EmptyMap),
                          paths \ {p})

MarkObsolete_whatever_its_flags(pc) ==
    [pc EXCEPT !.responses = [k \in DOMAIN @ |-> [@[k] EXCEPT !.obsolete = TRUE]]]

\* mark responses obsolete in case they were removed
MarkObsolete(pc) ==
    [pc EXCEPT !.responses =
        [k \in DOMAIN @ |-> IF ~@[k].pending /\ ~@[k].should_send
                            THEN [@[k] EXCEPT !.obsolete = TRUE] ELSE @[k]]]

RemoveObsolete(pc) ==
    [pc EXCEPT !.responses = MapRemove(@, {k \in DOMAIN @ : @[k].obsolete})]

\* what strcmp and strdup do with a null pointer
UBOutcomes == [strcmp : {"crash", "equal", "differ"}, strdup : {"crash", "null"}]
\* no null pointer reaches them
NoUB == [strcmp |-> "equal", strdup |-> "null"]

ziti_send_posture_data_ignores_instance(w, probe, ub) ==
    LET z == w.ztx
        c == w.ctrl
        pc == z.posture_checks
        skip == [w EXCEPT !.ev.tick.skipped = TRUE]
    IN
    IF z.api_session = NULL THEN skip
    ELSE IF z.api_session_state # "FullyAuthenticated" THEN skip
    ELSE
    LET new_session_id == \/ pc.previous_api_session_id = NULL
                          \/ pc.previous_api_session_id # z.api_session
        first_instance == pc.controller_instance_id = NULL /\ c.instance_id # NULL
        null_strcmp == ~first_instance
                       /\ (pc.controller_instance_id = NULL \/ c.instance_id = NULL)
        new_controller_instance ==
            IF first_instance THEN TRUE
            ELSE IF null_strcmp THEN ub.strcmp = "differ"
            ELSE pc.controller_instance_id # c.instance_id
        set == new_session_id \/ pc.must_send_every_time
        null_strdup == set /\ c.instance_id = NULL
    IN
    IF (null_strcmp /\ ub.strcmp = "crash") \/ (null_strdup /\ ub.strdup = "crash")
    THEN [w EXCEPT !.ztx.fault = "SIGSEGV", !.ev.tick.skipped = TRUE]
    ELSE
    LET pc1 == IF set
               THEN [pc EXCEPT !.must_send = TRUE,
                               !.previous_api_session_id = z.api_session,
                               !.controller_instance_id = c.instance_id]
               ELSE [pc EXCEPT !.must_send = FALSE]
        w1 == [w EXCEPT !.ztx.posture_checks = MarkObsolete(pc1),
                        !.ev.tick = [skipped |-> FALSE,
                                     new_session_id |-> new_session_id,
                                     new_controller_instance |-> new_controller_instance,
                                     prev_instance |-> pc.controller_instance_id,
                                     due |-> {},
                                     every_time |-> pc.must_send_every_time]]
        w2 == ProbeBlock(w1, PC_DOMAIN_TYPE, InfoOf(z.services, PC_DOMAIN_TYPE), probe)
        w3 == ProbeBlock(w2, PC_MAC_TYPE, InfoOf(z.services, PC_MAC_TYPE), probe)
        w4 == ProbeBlock(w3, PC_OS_TYPE, InfoOf(z.services, PC_OS_TYPE), probe)
        w5 == ProcessBlocks(w4, ProcessPaths(z.services))
        w6 == [w5 EXCEPT !.ztx.posture_checks = RemoveObsolete(@),
                         !.ev.tick.due = {r.id : r \in {x \in w5.ev.replied : ~x.changed}}
                                         \cap w5.hist]
    IN ziti_pr_send(w6)

ziti_send_posture_data_partial_session_runs(w, probe, ub) ==
    LET z == w.ztx
        c == w.ctrl
        pc == z.posture_checks
        skip == [w EXCEPT !.ev.tick.skipped = TRUE]
    IN
    IF z.api_session = NULL THEN skip
    ELSE IF FALSE THEN skip
    ELSE
    LET new_session_id == \/ pc.previous_api_session_id = NULL
                          \/ pc.previous_api_session_id # z.api_session
        first_instance == pc.controller_instance_id = NULL /\ c.instance_id # NULL
        null_strcmp == ~first_instance
                       /\ (pc.controller_instance_id = NULL \/ c.instance_id = NULL)
        new_controller_instance ==
            IF first_instance THEN TRUE
            ELSE IF null_strcmp THEN ub.strcmp = "differ"
            ELSE pc.controller_instance_id # c.instance_id
        set == new_session_id \/ pc.must_send_every_time \/ new_controller_instance
        null_strdup == set /\ c.instance_id = NULL
    IN
    IF (null_strcmp /\ ub.strcmp = "crash") \/ (null_strdup /\ ub.strdup = "crash")
    THEN [w EXCEPT !.ztx.fault = "SIGSEGV", !.ev.tick.skipped = TRUE]
    ELSE
    LET pc1 == IF set
               THEN [pc EXCEPT !.must_send = TRUE,
                               !.previous_api_session_id = z.api_session,
                               !.controller_instance_id = c.instance_id]
               ELSE [pc EXCEPT !.must_send = FALSE]
        w1 == [w EXCEPT !.ztx.posture_checks = MarkObsolete(pc1),
                        !.ev.tick = [skipped |-> FALSE,
                                     new_session_id |-> new_session_id,
                                     new_controller_instance |-> new_controller_instance,
                                     prev_instance |-> pc.controller_instance_id,
                                     due |-> {},
                                     every_time |-> pc.must_send_every_time]]
        w2 == ProbeBlock(w1, PC_DOMAIN_TYPE, InfoOf(z.services, PC_DOMAIN_TYPE), probe)
        w3 == ProbeBlock(w2, PC_MAC_TYPE, InfoOf(z.services, PC_MAC_TYPE), probe)
        w4 == ProbeBlock(w3, PC_OS_TYPE, InfoOf(z.services, PC_OS_TYPE), probe)
        w5 == ProcessBlocks(w4, ProcessPaths(z.services))
        w6 == [w5 EXCEPT !.ztx.posture_checks = RemoveObsolete(@),
                         !.ev.tick.due = {r.id : r \in {x \in w5.ev.replied : ~x.changed}}
                                         \cap w5.hist]
    IN ziti_pr_send(w6)

ziti_send_posture_data(w, probe, ub) ==
    LET z == w.ztx
        c == w.ctrl
        pc == z.posture_checks
        skip == [w EXCEPT !.ev.tick.skipped = TRUE]
    IN
    IF z.api_session = NULL THEN skip
    ELSE IF z.api_session_state # "FullyAuthenticated" THEN skip
    ELSE
    LET new_session_id == \/ pc.previous_api_session_id = NULL
                          \/ pc.previous_api_session_id # z.api_session
        first_instance == pc.controller_instance_id = NULL /\ c.instance_id # NULL
        null_strcmp == ~first_instance
                       /\ (pc.controller_instance_id = NULL \/ c.instance_id = NULL)
        new_controller_instance ==
            IF first_instance THEN TRUE
            ELSE IF null_strcmp THEN ub.strcmp = "differ"
            ELSE pc.controller_instance_id # c.instance_id
        set == new_session_id \/ pc.must_send_every_time \/ new_controller_instance
        null_strdup == set /\ c.instance_id = NULL
    IN
    IF (null_strcmp /\ ub.strcmp = "crash") \/ (null_strdup /\ ub.strdup = "crash")
    THEN [w EXCEPT !.ztx.fault = "SIGSEGV", !.ev.tick.skipped = TRUE]
    ELSE
    LET pc1 == IF set
               THEN [pc EXCEPT !.must_send = TRUE,
                               !.previous_api_session_id = z.api_session,
                               !.controller_instance_id = c.instance_id]
               ELSE [pc EXCEPT !.must_send = FALSE]
        w1 == [w EXCEPT !.ztx.posture_checks = MarkObsolete(pc1),
                        !.ev.tick = [skipped |-> FALSE,
                                     new_session_id |-> new_session_id,
                                     new_controller_instance |-> new_controller_instance,
                                     prev_instance |-> pc.controller_instance_id,
                                     due |-> {},
                                     every_time |-> pc.must_send_every_time]]
        w2 == ProbeBlock(w1, PC_DOMAIN_TYPE, InfoOf(z.services, PC_DOMAIN_TYPE), probe)
        w3 == ProbeBlock(w2, PC_MAC_TYPE, InfoOf(z.services, PC_MAC_TYPE), probe)
        w4 == ProbeBlock(w3, PC_OS_TYPE, InfoOf(z.services, PC_OS_TYPE), probe)
        w5 == ProcessBlocks(w4, ProcessPaths(z.services))
        w6 == [w5 EXCEPT !.ztx.posture_checks = RemoveObsolete(@),
                         !.ev.tick.due = {r.id : r \in {x \in w5.ev.replied : ~x.changed}}
                                         \cap w5.hist]
    IN ziti_pr_send(w6)

\* ziti_posture_checks_free: the timer is closed, the cache and the error
\* states are cleared, every queued process probe is marked cancelled and
\* taken out of active_work, and the bundle is freed; ztx->posture_checks
\* is NULL from then on (allocated = FALSE), which is what ziti_collect_pr
\* and ziti_pr_post_bulk_cb test for
ziti_posture_checks_free(w) ==
    IF ~w.ztx.posture_checks.allocated THEN w
    ELSE [w EXCEPT !.ztx.posture_checks =
                      [allocated |-> FALSE,
                       previous_api_session_id |-> NULL, controller_instance_id |-> NULL,
                       must_send_every_time |-> FALSE, must_send |-> FALSE,
                       responses |-> EmptyMap, error_states |-> EmptyMap],
                   !.work = [j \in DOMAIN @ |-> [@[j] EXCEPT !.canceled = TRUE]]]

\* active_work: the queued process probes that are not cancelled
active_work(wk) == SelectSeq(wk, LAMBDA x : ~x.canceled)
\* the queued process probes that were cancelled and have not finished
CancelledWork(wk) == SelectSeq(wk, LAMBDA x : x.canceled)

process_check_done_ignores_cancel(w, pcw, data) ==
    LET j == CHOOSE x \in DOMAIN w.work : w.work[x] = pcw
        w1 == [w EXCEPT !.work = [x \in 1..(Len(@) - 1) |-> IF x < j THEN @[x] ELSE @[x + 1]]]
    IN ziti_pr_handle_process(w1, pcw.id, pcw.path, data)

\* process_check_done: the work is over; its reply is passed on unless the
\* work was cancelled
process_check_done(w, pcw, data) ==
    LET j == CHOOSE x \in DOMAIN w.work : w.work[x] = pcw
        w1 == [w EXCEPT !.work = [x \in 1..(Len(@) - 1) |-> IF x < j THEN @[x] ELSE @[x + 1]]]
    IN IF ~pcw.canceled
       THEN ziti_pr_handle_process(w1, pcw.id, pcw.path, data)
       ELSE w1

(* ---------------------- the posture engine's events -------------------- *)
\* what a probe can find: the OS probe's answer varies, the others' does not
ProbeData == {"d1", "d2"}
ProbeDataOf(key) == IF key = PC_OS_TYPE THEN ProbeData ELSE {"d1"}

OsQueries ==
    {[type |-> PC_OS_TYPE, id |-> "q_os", timeout |-> t, paths |-> {}] :
        t \in {NO_TIMEOUTS, 60}}
MacQueries == {[type |-> PC_MAC_TYPE, id |-> "q_mac", timeout |-> 60, paths |-> {}]}
ProcessQueries ==
    {[type |-> PC_PROCESS_TYPE, id |-> "q_proc", timeout |-> 60, paths |-> {"/bin/a"}]}
ProcessQueriesNoTimeout ==
    {[type |-> PC_PROCESS_TYPE, id |-> "q_proc", timeout |-> t, paths |-> {"/bin/a"}] :
        t \in {NO_TIMEOUTS, 60}}
MultiQueries ==
    {[type |-> PC_PROCESS_MULTI_TYPE, id |-> "q_multi", timeout |-> 60,
      paths |-> {"/bin/a", "/bin/b"}]}

\* the sets of posture queries with one query for a type
ServiceSets(queries) ==
    {S \in SUBSET queries : \A q1, q2 \in S : q1.type = q2.type => q1 = q2}

\* the keys of the cache entries a set of queries asks for
KeysOf(services) ==
    {q.type : q \in {x \in services : x.type \in FixedTypes}} \cup ProcessPaths(services)

\* the errors the controller client gives a posture callback: none, or the
\* error of an envelope with status 404 or 500
PostErrors ==
    {NullErr,
     EnvelopeError("NOT_FOUND", "server message", 404),
     EnvelopeError("SOMETHING_NEW", "server message", 500)}

\* the posture timer fires; the probes of the fixed types find any data.
\* The timer's interval is long enough for the submissions in flight and
\* the ones the tick can make not to pass MaxPosts.
Tick(queries) ==
    /\ ztx.fault = NULL
    /\ Len(posts) + Cardinality(KeysOf(queries)) <= MaxPosts
    /\ \E ub \in IF ctrl.instance_id = NULL THEN UBOutcomes ELSE {NoUB} :
       \E probe \in {f \in [KeysOf(ztx.services) \cap FixedTypes -> ProbeData] :
                        \A k \in DOMAIN f : f[k] \in ProbeDataOf(k)} :
          Commit(ziti_send_posture_data(World("tick"), probe, ub))

\* a queued process probe finishes
ProbeDone ==
    /\ ztx.fault = NULL
    /\ \E pcw \in {work[j] : j \in DOMAIN work} :
       \E data \in ProbeDataOf(pcw.path) :
          Commit(process_check_done(World("probe_done"), pcw, data))

\* a process probe set through pq_process_cb invokes the reply callback a
\* second time for a dispatch it has answered, with the same result: the
\* entry has a body and is not pending, so no probe was invoked since
ReplyAgain ==
    /\ ztx.fault = NULL
    /\ \E path \in DOMAIN ztx.posture_checks.responses \ FixedTypes :
          LET info == ztx.posture_checks.responses[path] IN
          /\ ~info.pending
          /\ info.obj # NoJson
          /\ Commit(ziti_pr_handle_process(World("reply_again"), info.obj.id, path,
                                           info.obj.data))

\* a process probe set through pq_process_cb invokes the reply callback at
\* a time of its own, with any result: while the entry is pending, after it
\* was answered, or after it was removed as obsolete
LateReply ==
    /\ ztx.fault = NULL
    /\ \E q \in ProcessQueries, data \in ProbeData :
       \E path \in q.paths :
          Commit(ziti_pr_handle_process(World("late_reply"), q.id, path, data))

\* the controller client finishes a posture submission
PostDone(errors) ==
    /\ ztx.fault = NULL
    /\ \E k \in 1..Len(posts), err \in errors :
          LET w == World("post_done")
              rest == [j \in 1..(Len(posts) - 1) |-> IF j < k THEN posts[j] ELSE posts[j + 1]]
          IN Commit(InvokePostCb([w EXCEPT !.posts = rest], posts[k], err))

\* a response of the controller carries a ziti-instance-id header
InstanceIdSeen ==
    /\ ztx.fault = NULL
    /\ \E inst \in Instances :
          /\ inst # ctrl.instance_id
          /\ Commit([World("instance_id") EXCEPT !.ctrl = InstanceIdHeader(@, inst)])

\* the services are refreshed: the posture queries in force change
ServicesChanged(queries) ==
    /\ ztx.fault = NULL
    /\ \E S \in ServiceSets(queries) :
          /\ S # ztx.services
          /\ Commit([World("services") EXCEPT !.ztx.services = S])

\* the application logs in again, or logs out: the API session has another
\* id, or there is none
ApiSessionChanged ==
    /\ ztx.fault = NULL
    /\ \E id \in {NULL, "s1", "s2"} :
          /\ id # ztx.api_session
          /\ Commit([World("api_session") EXCEPT !.ztx.api_session = id])

\* the API session goes from partially to fully authenticated and back
SessionStateChanged ==
    /\ ztx.fault = NULL
    /\ \E st \in {"PartiallyAuthenticated", "FullyAuthenticated"} :
          /\ st # ztx.api_session_state
          /\ Commit([World("session") EXCEPT !.ztx.api_session_state = st])

\* the context is disabled: its posture-checks bundle is torn down
PostureFree ==
    /\ ztx.fault = NULL
    /\ ztx.posture_checks.allocated
    /\ Commit(ziti_posture_checks_free(World("teardown")))

\* the context is enabled again: ziti_posture_init makes a new bundle
PostureInit ==
    /\ ztx.fault = NULL
    /\ ~ztx.posture_checks.allocated
    /\ Commit([World("posture_init") EXCEPT !.ztx.posture_checks = ziti_posture_init])

(* ------------------------ a service's queries -------------------------- *)
\* posture_query_map is written as the sequence of its entries in the order
\* model_map_iterator visits them: the policy id and the set's
\* posture_queries, of which only the timeouts are kept.
Timeouts == {NO_TIMEOUTS, 60}

QuerySeqs == UNION {[1..n -> [timeout : Timeouts]] : n \in 0..MaxQueries}

PolicyIds == 1..MaxSets

\* the maps with up to MaxSets entries
QueryMaps ==
    UNION {{m \in [1..n -> [policy : PolicyIds, posture_queries : QuerySeqs]] :
               \A a, b \in 1..n : a < b => m[a].policy < m[b].policy} : n \in 0..MaxSets}

NoService == [posture_query_map |-> <<>>, before |-> <<>>, called |-> FALSE, ret |-> FALSE]

\* the loop over a set's posture_queries up to the terminator
HasTimeout(set) ==
    \E j \in DOMAIN set.posture_queries : set.posture_queries[j].timeout # NO_TIMEOUTS

\* ziti_service_has_query_with_timeout: the iterator is moved on with
\* model_map_it_remove, which takes the entry just visited out of the map
RECURSIVE ziti_service_has_query_with_timeout(_)
ziti_service_has_query_with_timeout(m) ==
    IF m = <<>> THEN [posture_query_map |-> <<>>, ret |-> FALSE]
    ELSE IF HasTimeout(Head(m)) THEN [posture_query_map |-> m, ret |-> TRUE]
    ELSE ziti_service_has_query_with_timeout(Tail(m))

\* the caller asks whether the service has a query with a timeout
HasQueryWithTimeout ==
    /\ LET r == ziti_service_has_query_with_timeout(service.posture_query_map) IN
       service' = [posture_query_map |-> r.posture_query_map,
                   before |-> service.posture_query_map,
                   called |-> TRUE, ret |-> r.ret]
    /\ UNCHANGED <<ctrl, reqs, ev, ztx, posts, work, hist, log>>

(* ----------------------------- log levels ------------------------------ *)
Markers == {"m1", "m2"}
\* the levels a caller passes: the levels, one above and two below
AskedLevels == (ZITI_LOG_DEFAULT_LEVEL - 1)..(TRACE + 1)
\* a path is the sequence of its components; <<>> is no path
Files == {<<>>, <<"m1">>, <<"src", "m1">>, <<"src", "m2">>, <<"src", "x.c">>}
Modules == {NULL, "m1", "m2", "other"}

\* after ziti_log_init with the default level and no ZITI_LOG in the
\* environment: init_debug makes the global level ERROR
LogDefaults == [log_levels |-> EmptyMap, ziti_log_lvl |-> ERROR, asked |-> EmptyMap]

basename(path) == IF path = <<>> THEN NULL ELSE path[Len(path)]

\* model_map_get cast to int: 0 for a key the map does not hold
LevelAt(m, key) == IF key \in DOMAIN m THEN m[key] ELSE 0

ziti_log_set_level(l, level, marker) ==
    LET lv == IF level > TRACE THEN TRACE
              ELSE IF level < 0 THEN ZITI_LOG_DEFAULT_LEVEL ELSE level
    IN IF lv = ZITI_LOG_DEFAULT_LEVEL
       THEN IF marker # NULL
            THEN [l EXCEPT !.log_levels = MapRemove(@, {marker})]
            ELSE l
       ELSE IF marker # NULL
            THEN [l EXCEPT !.log_levels = MapSet(@, marker, lv)]
            ELSE [l EXCEPT !.ziti_log_lvl = lv]

ziti_log_level(l, module, file) ==
    LET f == basename(file)
        by_file == IF f # NULL THEN LevelAt(l.log_levels, f) ELSE 0
        by_module == IF module # NULL THEN LevelAt(l.log_levels, module) ELSE 0
    IN IF by_file # 0 THEN by_file
       ELSE IF by_module # 0 THEN by_module
       ELSE l.ziti_log_lvl

\* the application sets the level of a marker, or the global level
SetLevel ==
    /\ \E level \in AskedLevels, marker \in Markers \cup {NULL} :
          log' = [ziti_log_set_level(log, level, marker) EXCEPT
                     !.asked = IF marker # NULL THEN MapSet(@, marker, level) ELSE @]
    /\ UNCHANGED <<ctrl, reqs, ev, ztx, posts, work, hist, service>>

\* no service is looked at and no level has been set
Idle ==
    /\ service = NoService
    /\ log = LogDefaults

(* --------------------------- specification ----------------------------- *)
\* the application does not use posture checks
NoPosture ==
    /\ ztx = NewZtx
    /\ posts = <<>>
    /\ work = <<>>
    /\ hist = {}
    /\ Idle

Init ==
    /\ ctrl = ziti_ctrl_init
    /\ reqs = [i \in Slots |-> FreeSlot]
    /\ ev = NoEvents
    /\ NoPosture

\* One operation at a time: the application calls the next operation when
\* the previous one has finished; any operation, any outcome, no rebind
\* header.
Next ==
    \/ \E op \in Ops : ApiCall(op, 1)
    \/ HttpFail(1)
    \/ HttpHeaders(1, Statuses, {}, {})
    \/ HttpChunk(1)
    \/ HttpEof(1, FALSE, ServerCodes)
    \/ HttpBodyFail(1)
    \/ ziti_ctrl_cancel
    \/ ziti_ctrl_set_page_size
    \/ ClearApiSession

Spec == Init /\ [][Next]_vars

\* Operations in flight together: the application, configured with a page
\* size of 1, logs in, logs out and lists services, up to MaxReqs
\* operations at once; the responses arrive in any order, with status 200
\* and, when the server refuses, the error code UNAUTHORIZED.
PairOps == {"login", "logout", "services"}

InitPair ==
    /\ ctrl = [ziti_ctrl_init EXCEPT !.page_size = 1]
    /\ reqs = [i \in Slots |-> FreeSlot]
    /\ ev = NoEvents
    /\ NoPosture

NextPair ==
    \/ \E op \in PairOps, i \in Slots : ApiCall(op, i)
    \/ \E i \in Slots : HttpFail(i)
    \/ \E i \in Slots : HttpHeaders(i, {200}, {}, {})
    \/ \E i \in Slots : HttpEof(i, FALSE, {"UNAUTHORIZED"})
    \/ \E i \in Slots : HttpBodyFail(i)
    \/ ziti_ctrl_cancel

SpecPair == InitPair /\ [][NextPair]_vars

\* The same operations until the application closes the controller client,
\* which it does once and at any time; the client is not used afterwards.
NextClose ==
    \/ \E op \in PairOps, i \in Slots : ctrl.client /\ ApiCall(op, i)
    \/ \E i \in Slots : HttpHeaders(i, {200}, {}, Instances)
    \/ \E i \in Slots : HttpEof(i, FALSE, {"UNAUTHORIZED"})
    \/ ziti_ctrl_close

SpecClose == InitPair /\ [][NextClose]_vars

\* Paged operations against any server: the application is logged in and
\* lists services, edge routers and sessions, one operation at a time; the
\* server reports any totalCount and returns any number of elements up to
\* the limit on every page.
InitPaging ==
    /\ ctrl = [ziti_ctrl_init EXCEPT !.api_session_token = "T1", !.zt_session = "T1"]
    /\ reqs = [i \in Slots |-> FreeSlot]
    /\ ev = NoEvents
    /\ NoPosture

NextPaging ==
    \/ \E op \in PagedOps : ApiCall(op, 1)
    \/ HttpFail(1)
    \/ HttpHeaders(1, Statuses, {}, {})
    \/ HttpEof(1, TRUE, ServerCodes)
    \/ HttpBodyFail(1)
    \/ ziti_ctrl_cancel
    \/ ziti_ctrl_set_page_size

SpecPaging == InitPaging /\ [][NextPaging]_vars

\* Paged operations against a server that answers every request: the
\* headers of a response arrive, and then its body ends; what the pages
\* hold is the server's choice.
NextWalk ==
    \/ \E op \in PagedOps : ApiCall(op, 1)
    \/ HttpHeaders(1, {200}, {}, {})
    \/ HttpEof(1, TRUE, {})
    \/ ziti_ctrl_set_page_size

SpecWalk ==
    /\ InitPaging /\ [][NextWalk]_vars
    /\ WF_vars(HttpHeaders(1, {200}, {}, {}))
    /\ WF_vars(HttpEof(1, TRUE, {}))

\* Error envelopes: the application is logged in, logs in again and lists
\* services, one operation at a time; the server answers with status 200,
\* 404 or 500 and an envelope that holds any error code, with or without
\* data.
CodeOps == {"login", "services"}
CodeStatuses == {200, 404, 500}

NextCodes ==
    \/ \E op \in CodeOps : ApiCall(op, 1)
    \/ HttpHeaders(1, CodeStatuses, {}, {})
    \/ HttpEof(1, FALSE, AllCodes)

SpecCodes == InitPaging /\ [][NextCodes]_vars

\* The posture engine of a context that is logged in, fully authenticated,
\* to a controller whose instance id is known, with services that ask for
\* the OS and the MAC addresses: ticks, submission results, service
\* refreshes and controller restarts in any order.
InitPosture ==
    /\ ctrl = [ziti_ctrl_init EXCEPT !.api_session_token = "T1", !.zt_session = "T1",
                                     !.instance_id = "i1"]
    /\ reqs = [i \in Slots |-> FreeSlot]
    /\ ev = NoEvents
    /\ ztx = [NewZtx EXCEPT !.api_session = "s1",
                            !.api_session_state = "FullyAuthenticated"]
    /\ posts = <<>>
    /\ work = <<>>
    /\ hist = {}
    /\ Idle

NextPosture ==
    \/ Tick(OsQueries \cup MacQueries)
    \/ PostDone(PostErrors)
    \/ InstanceIdSeen
    \/ ServicesChanged(OsQueries \cup MacQueries)

SpecPosture == InitPosture /\ [][NextPosture]_vars

\* The same context with services that ask for a process and for a set of
\* processes that lists the same path and another one.
NextProcs ==
    \/ Tick(ProcessQueries \cup MultiQueries)
    \/ ProbeDone
    \/ PostDone({NullErr})
    \/ ServicesChanged(ProcessQueries \cup MultiQueries)
    \/ SessionStateChanged

SpecProcs == InitPosture /\ [][NextProcs]_vars

\* The same context with a process probe that may answer a dispatch twice;
\* the process query has a timeout or none.
NextReplies ==
    \/ Tick(ProcessQueriesNoTimeout)
    \/ ProbeDone
    \/ ReplyAgain
    \/ PostDone({NullErr})
    \/ ServicesChanged(ProcessQueriesNoTimeout)
    \/ SessionStateChanged

SpecReplies == InitPosture /\ [][NextReplies]_vars

\* The context with services that ask for a process only, under the
\* scheduling the loop gives: the posture timer repeats, so a tick that can
\* run does run, and the HTTP client finishes every submission it was
\* handed, successfully.
NextLive ==
    \/ Tick(ProcessQueries)
    \/ ProbeDone
    \/ PostDone({NullErr})
    \/ ServicesChanged(ProcessQueries)
    \/ SessionStateChanged

SpecLive ==
    /\ InitPosture /\ [][NextLive]_vars
    /\ WF_vars(Tick(ProcessQueries))
    /\ WF_vars(PostDone({NullErr}))

\* The context with services that ask for the OS, with a timeout or
\* without, while the application logs in again and the controller
\* restarts at any time.
NextSessions ==
    \/ Tick(OsQueries)
    \/ PostDone({NullErr})
    \/ InstanceIdSeen
    \/ ApiSessionChanged
    \/ ServicesChanged(OsQueries)
    \/ SessionStateChanged

SpecSessions == InitPosture /\ [][NextSessions]_vars

\* The context with services that ask for the OS, against a controller
\* without the bulk endpoint, which answers every submission with 404.
NotFoundErrors == {EnvelopeError("NOT_FOUND", "server message", 404)}

NextDegrade ==
    \/ Tick(OsQueries)
    \/ PostDone(NotFoundErrors)
    \/ ServicesChanged(OsQueries)

SpecDegrade == InitPosture /\ [][NextDegrade]_vars

\* The context with services that ask for a process, with a timeout or
\* without; the replies come from the worker and from a probe that answers
\* at times of its own, the controller refuses submissions at will.
NextCollect ==
    \/ (Len(work) < MaxWork /\ Tick(ProcessQueriesNoTimeout))
    \/ ProbeDone
    \/ LateReply
    \/ PostDone(PostErrors)
    \/ ServicesChanged(ProcessQueriesNoTimeout)

SpecCollect == InitPosture /\ [][NextCollect]_vars

\* The context with services that ask for a process, disabled and enabled
\* again at any time: the timer runs only while the bundle exists, the
\* queued process probes finish whenever the worker is done, and no more
\* than MaxWork of them are queued at a time.
NextTeardown ==
    \/ (ztx.posture_checks.allocated /\ Len(work) < MaxWork /\ Tick(ProcessQueries))
    \/ ProbeDone
    \/ PostDone({NullErr})
    \/ ServicesChanged(ProcessQueries)
    \/ PostureFree
    \/ PostureInit

SpecTeardown == InitPosture /\ [][NextTeardown]_vars

\* The context disabled and enabled again while posture submissions are in
\* flight: the controller client ends a submission at any time, with a
\* reply, with an error of the controller, or with the error of a cancelled
\* request; the timer runs only while the bundle exists.
LateErrors == PostErrors \cup {TransportError("ECANCELED")}

NextLate ==
    \/ (ztx.posture_checks.allocated /\ Tick(OsQueries))
    \/ PostDone(LateErrors)
    \/ ServicesChanged(OsQueries)
    \/ PostureFree
    \/ PostureInit

SpecLate == InitPosture /\ [][NextLate]_vars

\* The posture engine with a controller that has not reported a
\* ziti-instance-id yet: the header may arrive at any time, on any response.
InitFirstRun ==
    /\ ctrl = [ziti_ctrl_init EXCEPT !.api_session_token = "T1", !.zt_session = "T1"]
    /\ reqs = [i \in Slots |-> FreeSlot]
    /\ ev = NoEvents
    /\ ztx = [NewZtx EXCEPT !.api_session = "s1",
                            !.api_session_state = "FullyAuthenticated"]
    /\ posts = <<>>
    /\ work = <<>>
    /\ hist = {}
    /\ Idle

NextFirstRun ==
    \/ Tick(OsQueries)
    \/ PostDone({NullErr})
    \/ InstanceIdSeen
    \/ ServicesChanged(OsQueries)

SpecFirstRun == InitFirstRun /\ [][NextFirstRun]_vars

\* ziti_service_has_query_with_timeout on any service, called any number
\* of times.
InitQuery ==
    /\ ctrl = ziti_ctrl_init
    /\ reqs = [i \in Slots |-> FreeSlot]
    /\ ev = NoEvents
    /\ ztx = NewZtx
    /\ posts = <<>>
    /\ work = <<>>
    /\ hist = {}
    /\ log = LogDefaults
    /\ \E m \in QueryMaps : service = [NoService EXCEPT !.posture_query_map = m]

SpecQuery == InitQuery /\ [][HasQueryWithTimeout]_vars

\* The log levels set in any order, for two markers and for the root.
SpecLog == Init /\ [][SetLevel]_vars

\* Rebinds: the application is logged in with the largest page size, has
\* set a redirect observer, enrolls and lists services, up to MaxReqs
\* operations at once; any response may carry the ziti-ctrl-address of the
\* controller's second URL; an enrollment may be answered with a PEM file;
\* requests are cancelled.
RebindOps == {"enroll", "services"}

InitRebind ==
    /\ ctrl = [ziti_ctrl_init EXCEPT !.api_session_token = "T1", !.zt_session = "T1",
                                     !.page_size = MaxPageSize, !.redirect_cb = TRUE]
    /\ reqs = [i \in Slots |-> FreeSlot]
    /\ ev = NoEvents
    /\ NoPosture

NextRebind ==
    \/ \E op \in RebindOps, i \in Slots : ApiCall(op, i)
    \/ \E i \in Slots : HttpHeaders(i, {200}, Urls \ {ziti_ctrl_init.url}, {})
    \/ \E i \in Slots : HttpEof(i, FALSE, {})
    \/ ziti_ctrl_cancel

SpecRebind == InitRebind /\ [][NextRebind]_vars

(* ------------------------------ properties ----------------------------- *)
\* the user callbacks the step just taken invoked for the context of slot i
CbsOf(i) == {k \in DOMAIN ev.cbs : ev.cbs[k].slot = i}

\* C1: the user's callback fires exactly once over the life of a response
\* context: it has not fired while the request is in flight, and it has
\* fired once, in the step that finished the context, when the context is
\* finished, whatever events led there.
C1_ExactlyOneTerminalCallback ==
    \A i \in Slots :
        /\ InFlight(reqs[i]) => reqs[i].ncb = 0 /\ CbsOf(i) = {}
        /\ Finished(reqs[i]) => reqs[i].ncb = 1 /\ Cardinality(CbsOf(i)) = 1

C1_Witness ==
    /\ ev.kind = "http_body_fail"
    /\ Finished(reqs[1])
    /\ reqs[1].paging
    /\ reqs[1].ncb = 1

\* C2: no request of an operation that begins with the session check is
\* handed to the HTTP client while the API session token is absent, the
\* follow-up page requests of a paged operation included.
C2_NoSessionRequestWithoutToken ==
    \A k \in DOMAIN ev.started :
        ev.started[k].needs_session => ev.started[k].token # NULL

\* C3: an operation other than version, login, enroll and well-known-certs
\* called while the token is absent invokes the caller's callback at once,
\* once, with no object, AUTH_FAILED / UNAUTHORIZED / the no-token message
\* and the caller's context, creates no context and starts no request; any
\* other call creates a context, starts one request and invokes nothing.
C3_SynchronousRejection ==
    ev.kind = "call" =>
        IF /\ ev.call.op \notin {"version", "login", "enroll", "well_known_certs"}
           /\ ctrl.api_session_token = NULL
        THEN /\ ev.cbs = <<[slot |-> 0, obj |-> NullObj,
                            err |-> [err |-> "AUTH_FAILED", code |-> "UNAUTHORIZED",
                                     http_code |-> 0,
                                     message |-> "no api session token set for ziti_controller"],
                            ctx |-> ev.call.ctx]>>
             /\ ~ev.call.created
             /\ ev.started = <<>>
             /\ \A i \in Slots : reqs[i].state = "free"
        ELSE /\ ev.call.created
             /\ ev.cbs = <<>>
             /\ Len(ev.started) = 1
             /\ reqs[ev.started[1].slot].state = "sent"

C3_Witness ==
    /\ ev.kind = "call"
    /\ ev.call.op = "logout"
    /\ ~ev.call.created
    /\ Len(ev.cbs) = 1

\* C4: a cancel finishes every request in flight, before the headers or
\* during the body, with one callback whose error kind is DISABLED and no
\* object, and issues no page request; no context stays in flight.
C4_CancelDisablesAll ==
    ev.kind = "cancel" =>
        /\ ev.started = <<>>
        /\ \A i \in Slots : ~InFlight(reqs[i])
        /\ \A c \in ev.cancelled :
              /\ Finished(reqs[c.slot])
              /\ Cardinality(CbsOf(c.slot)) = 1
              /\ \A k \in CbsOf(c.slot) :
                    ev.cbs[k].err.err = "DISABLED" /\ ev.cbs[k].obj = NullObj

\* a paged walk cancelled after its second page, together with a request
\* cancelled during its body
C4_Witness ==
    /\ ev.kind = "cancel"
    /\ \E c \in ev.cancelled : c.state = "sent" /\ c.recd = 2
    /\ \E c \in ev.cancelled : c.state = "body"

\* C5: when every page of a paged operation had the same totalCount T and
\* the elements of the requested offset and limit, the array given to the
\* callback is the elements 1..T in order, and its terminator was written
\* inside the array.
C5_PagedArrayIsConcatenation ==
    \A i \in Slots : \A k \in CbsOf(i) :
        (reqs[i].paging /\ reqs[i].srv_honest /\ ev.cbs[k].obj.kind = "array") =>
            /\ ev.cbs[k].obj.items = [j \in 1..reqs[i].srv_total |-> j]
            /\ ~reqs[i].ub

C5_Witness ==
    /\ ev.kind = "http_eof"
    /\ \E k \in CbsOf(1) :
          /\ reqs[1].srv_honest
          /\ ev.cbs[k].obj.kind = "array"
          /\ Len(ev.cbs[k].obj.items) = 3
          /\ reqs[1].limit = 2

\* the ids of the bodies the step just taken handed to the controller client
PostedIds == UNION {ev.posted[k].ids : k \in DOMAIN ev.posted}

\* C6: a tick that finds the controller's instance id changed since the
\* last tick submits the body of every probe that answered it with the
\* body already cached.
C6_InstanceChangeResendsCachedBodies ==
    (/\ ev.kind = "tick"
     /\ ~ev.tick.skipped
     /\ ev.tick.new_controller_instance
     /\ ev.tick.prev_instance # NULL) =>
        \A r \in ev.replied : ~r.changed => r.id \in PostedIds

\* C7: a tick submits again the ids of a bulk submission that failed with
\* an error other than 404 when their probes answer the body already cached.
C7_FailedBulkIsSubmittedAgain ==
    (ev.kind = "tick" /\ ~ev.tick.skipped) => ev.tick.due \subseteq PostedIds

\* C8: the callback of an individual submission sets the id's error-state
\* on an error and clears it on success; a probe reply for an id whose
\* error-state is set is submitted by the tick, on its own, whether or not
\* the body changed.
C8_ErroredItemIsRetried ==
    /\ (ev.kind = "post_done" /\ ev.done.post.path = ItemPath) =>
          \A id \in ev.done.post.ids :
              ziti_pr_is_info_errored(ztx.posture_checks, id) = (ev.done.err # NullErr)
    /\ (ev.kind = "tick" /\ ~ev.tick.skipped) =>
          \A r \in ev.replied :
              r.errored => \E k \in DOMAIN ev.posted :
                              ev.posted[k].path = ItemPath /\ ev.posted[k].ids = {r.id}

C8_Witness ==
    /\ ev.kind = "tick"
    /\ ~ztx.posture_checks.must_send_every_time
    /\ \E r \in ev.replied : r.errored /\ ~r.changed /\ r.id \in PostedIds

\* C9: a bulk submission answered with 404 sets the no-bulk flag; the flag
\* is never cleared; while it is set every submission is one body to
\* /posture-response.
C9_NoBulkIsSticky ==
    /\ []((/\ ev.kind = "post_done"
           /\ ev.done.post.path = BulkPath
           /\ ev.done.err.http_code = 404) => ztx.no_bulk_posture_response_api)
    /\ [](ztx.no_bulk_posture_response_api =>
             \A k \in DOMAIN ev.posted :
                 ev.posted[k].path = ItemPath /\ Cardinality(ev.posted[k].ids) = 1)
    /\ [][ztx.no_bulk_posture_response_api => ztx'.no_bulk_posture_response_api]_vars

C9_Witness ==
    /\ ev.kind = "tick"
    /\ ztx.no_bulk_posture_response_api
    /\ Len(ev.posted) = 2

\* C10: when a logout request has finished, the stored token and the
\* zt-session header are absent, whatever the result was.
C10_LogoutCompletionClearsToken ==
    \A i \in Slots :
        (Finished(reqs[i]) /\ reqs[i].ctrl_cb = "ctrl_logout_cb") =>
            ctrl.api_session_token = NULL /\ ctrl.zt_session = NULL

\* C11: the zt-session header of the HTTP client always equals the stored
\* token (both absent or both the same value), every request is handed to
\* the HTTP client with the header equal to the token stored at that moment,
\* and a login or current-api-session response that decodes to a session
\* with no error leaves the session's token stored.
C11_HeaderFollowsToken ==
    /\ ctrl.zt_session = ctrl.api_session_token
    /\ \A k \in DOMAIN ev.started : ev.started[k].zt_session = ev.started[k].token
    /\ \A i \in Slots : \A k \in CbsOf(i) :
          (/\ reqs[i].ctrl_cb = "ctrl_login_cb"
           /\ ev.cbs[k].obj.kind = "session"
           /\ ev.cbs[k].err = NullErr) => ctrl.api_session_token = ev.cbs[k].obj.val

\* a request of a session operation dispatched with the token a login stored
C11_Witness ==
    /\ ev.kind = "call"
    /\ ev.call.op = "current_identity"
    /\ Len(ev.started) = 1
    /\ ev.started[1].zt_session = "T2"
    /\ ctrl.api_session_token = "T2"

\* C12: when a response that carried a ziti-ctrl-address header has been
\* read to its end, the controller's URL and the HTTP client's target are
\* that address, and if it differed from the URL then current it was adopted
\* after the context's callback had been invoked once, with the redirect
\* observer called when one is set; an enrollment answered with a PEM file
\* included.
C12_RebindHeaderIsAdopted ==
    \A i \in Slots :
        (ev.kind = "http_eof" /\ Finished(reqs[i]) /\ reqs[i].seen_address # NULL) =>
            /\ ctrl.url = reqs[i].seen_address
            /\ ctrl.client_url = reqs[i].seen_address
            /\ \E p \in DOMAIN ev.rebinds :
                  LET b == ev.rebinds[p] IN
                  /\ b.slot = i
                  /\ b.to = reqs[i].seen_address
                  /\ b.ncb = 1
                  /\ b.from # b.to => b.adopted /\ (ctrl.redirect_cb => b.notified)

\* C13: every request of an operation, the follow-up page requests of a
\* paged operation included, is sent to the URL the HTTP client targeted
\* when the operation was called.
C13_WalkKeepsItsUrl ==
    \A k \in DOMAIN ev.started :
        ev.started[k].url = reqs[ev.started[k].slot].start_url

\* C14: a context that reaches its terminal callback holding an address
\* equal to the URL then current leaves the URL alone and does not call the
\* observer; the observer is called only for an address that differs from
\* the URL then current, once for an adoption, so contexts finishing one
\* after another with the same address call it once.
C14_SameAddressIsIgnored ==
    /\ \A p \in DOMAIN ev.rebinds :
          LET b == ev.rebinds[p] IN
          /\ b.from = b.to => ~b.adopted /\ ~b.notified
          /\ b.notified => b.adopted
          /\ b.adopted => b.from # b.to
    /\ Len(ev.redirects) = Cardinality({p \in DOMAIN ev.rebinds : ev.rebinds[p].notified})
    /\ \A p, q \in DOMAIN ev.rebinds :
          (/\ p < q
           /\ ev.rebinds[p].to = ev.rebinds[q].to
           /\ \A x \in (p + 1)..(q - 1) : ~ev.rebinds[x].adopted) => ~ev.rebinds[q].notified

\* a cancel finishes two walks that both hold the same new address: one
\* adoption, one observer call
C14_Witness ==
    /\ ev.kind = "cancel"
    /\ Len(ev.rebinds) = 2
    /\ ev.rebinds[1].to = ev.rebinds[2].to
    /\ ev.rebinds[1].notified
    /\ ~ev.rebinds[2].adopted
    /\ Len(ev.redirects) = 1

\* C15: after a tick that was not skipped every cache entry is pending, or
\* is not marked should_send, or its cached body was handed to the
\* controller client by that tick; and with the timer repeating and the
\* submissions succeeding an entry marked should_send does not stay marked
\* for ever while the session stays fully authenticated.
C15_TickSendsWhatIsMarked ==
    /\ []((ev.kind = "tick" /\ ~ev.tick.skipped) =>
             \A k \in DOMAIN ztx.posture_checks.responses :
                 LET info == ztx.posture_checks.responses[k] IN
                 \/ info.pending
                 \/ ~info.should_send
                 \/ \E p \in DOMAIN ev.posted :
                        k \in ev.posted[p].ids /\ ev.posted[p].objs[k] = info.obj)
    /\ \A k \in KeysOf(ProcessQueries) :
          (k \in ShouldSend(ztx.posture_checks))
              ~> (\/ k \notin ShouldSend(ztx.posture_checks)
                  \/ ztx.api_session_state # "FullyAuthenticated")

\* a tick hands over the body a process probe delivered since the last tick
C15_Witness ==
    /\ ev.kind = "tick"
    /\ ~ev.tick.skipped
    /\ \E p \in DOMAIN ev.posted : "/bin/a" \in ev.posted[p].ids
    /\ "/bin/a" \notin ShouldSend(ztx.posture_checks)

\* C16 as stated: a tick does not submit the body of a probe that replied
\* the body already cached when the id's last submission did not error.
C16_SameBodyIsPostedOnce ==
    (ev.kind = "tick" /\ ~ev.tick.skipped) =>
        \A r \in ev.replied : (~r.changed /\ ~r.errored) => r.id \notin PostedIds

\* C16 amended: a tick submits every body that differs from the cached one,
\* and when "send every time" was off as the tick began (a query with
\* timeout -1 had been seen) it does not submit the body of a probe that
\* replied the body already cached and whose last submission did not error.
C16_SameBodyIsPostedOnceUnlessEveryTime ==
    (ev.kind = "tick" /\ ~ev.tick.skipped) =>
        \A r \in ev.replied :
            /\ r.changed => r.id \in PostedIds
            /\ (~ev.tick.every_time /\ ~r.changed /\ ~r.errored) => r.id \notin PostedIds

\* the second of two ticks whose OS probe gave the same body: nothing is sent
C16_Witness ==
    /\ ev.kind = "tick"
    /\ ~ev.tick.skipped
    /\ ~ev.tick.every_time
    /\ \E r \in ev.replied : r.id = PC_OS_TYPE /\ ~r.changed /\ ~r.errored
    /\ ev.posted = <<>>

\* the process probes outstanding for a path
WorkFor(path) == {j \in DOMAIN work : work[j].path = path}

C18_SecondReplyIsDiscarded ==
    [][ev'.kind = "reply_again" =>
          ztx'.posture_checks.responses = ztx.posture_checks.responses]_vars

\* s is the beginning of t
IsPrefix(s, t) == Len(s) =< Len(t) /\ \A j \in DOMAIN s : t[j] = s[j]

\* C19: when a page of a paged operation has been appended within the
\* array (whatever totalCount it and the pages before it reported), the
\* elements accepted before are the beginning, in order, of the array kept
\* for the next page or given to the callback; a totalCount larger than any
\* before grows the array to totalCount + 1 slots; another page is requested
\* exactly when the page's totalCount exceeds its offset + limit.
C19_TotalChangeLosesNothing ==
    LET pg == ev.page IN
    (pg.slot # 0 /\ ~reqs[pg.slot].ub) =>
        /\ (pg.total > pg.offset + pg.limit) <=> InFlight(reqs[pg.slot])
        /\ InFlight(reqs[pg.slot]) =>
              /\ Len(ev.started) = 1
              /\ IsPrefix(pg.had, reqs[pg.slot].resp_array)
              /\ Len(reqs[pg.slot].resp_array) = Len(pg.had) + pg.n
              /\ pg.total > pg.prev_total => reqs[pg.slot].cap = pg.total + 1
              /\ reqs[pg.slot].cap >= Len(reqs[pg.slot].resp_array) + 1
        /\ Finished(reqs[pg.slot]) =>
              /\ ev.started = <<>>
              /\ Cardinality(CbsOf(pg.slot)) = 1
              /\ \A k \in CbsOf(pg.slot) :
                    /\ ev.cbs[k].obj.kind = "array"
                    /\ IsPrefix(pg.had, ev.cbs[k].obj.items)
                    /\ Len(ev.cbs[k].obj.items) = Len(pg.had) + pg.n

\* a walk whose totalCount grew after the first page and then shrank below
\* the number of elements accepted: it ends there and delivers them all
C19_Witness ==
    LET pg == ev.page IN
    /\ pg.slot = 1
    /\ Finished(reqs[1])
    /\ ~reqs[1].ub
    /\ reqs[1].srv_total < pg.prev_total
    /\ pg.total < Len(pg.had)
    /\ \E k \in CbsOf(1) : Len(ev.cbs[k].obj.items) = Len(pg.had)

\* C20: after a page of a paged operation has been appended the number of
\* elements received is at most the largest totalCount reported, no write
\* went past the total + 1 slots of the array, and the page the operation
\* finishes on has offset + limit >= totalCount.
C20_ReceivedWithinDeclaredTotal ==
    LET pg == ev.page IN
    pg.slot # 0 =>
        /\ Len(pg.had) + pg.n =< Max(pg.prev_total, pg.total)
        /\ ~reqs[pg.slot].ub
        /\ Finished(reqs[pg.slot]) => pg.offset + pg.limit >= pg.total

\* C21: when the first response of a paged operation is an envelope without
\* error whose meta reports totalCount 0, and no write went outside the
\* array, the operation is over after that one request: no further request
\* is started, and the callback is invoked once, with an array that is not
\* NULL and has no element, and with no error.
C21_EmptyTotalIsOneRequest ==
    LET pg == ev.page IN
    (pg.slot # 0 /\ pg.first /\ pg.total = 0 /\ pg.error = NULL /\ ~reqs[pg.slot].ub) =>
        /\ Finished(reqs[pg.slot])
        /\ \A k \in DOMAIN ev.started : ev.started[k].slot # pg.slot
        /\ reqs[pg.slot].ncb = 1
        /\ \A k \in CbsOf(pg.slot) :
              /\ ev.cbs[k].obj = [kind |-> "array", items |-> <<>>, val |-> NULL]
              /\ ev.cbs[k].err = NullErr
              /\ ev.cbs[k].ctx = UserCtx(pg.slot)

C21_Witness ==
    LET pg == ev.page IN
    /\ pg.slot # 0 /\ pg.first /\ pg.total = 0 /\ pg.error = NULL /\ ~reqs[pg.slot].ub
    /\ \E k \in CbsOf(pg.slot) : ev.cbs[k].obj.kind = "array"

\* C22: a step starts at most one request for a paged operation, and only
\* in two situations: the operation is called, no request of its context is
\* outstanding and the offset is 0; or the body of the previous page has
\* ended and its elements have been appended to the array. In both the
\* request's offset is the number of elements received so far.
C22_PagesAreSequential ==
    [][\A k \in DOMAIN ev'.started :
          LET s == ev'.started[k]
              r == reqs[s.slot]
              r1 == reqs'[s.slot]
              pg == ev'.page
          IN r1.paging =>
               /\ \A j \in DOMAIN ev'.started : ev'.started[j].slot = s.slot => j = k
               /\ s.offset = r1.recd
               /\ s.offset = Len(r1.resp_array)
               /\ r1.state = "sent"
               /\ \/ /\ ev'.kind = "call"
                     /\ ~InFlight(r)
                     /\ s.offset = 0
                  \/ /\ ev'.kind = "http_eof"
                     /\ r.state = "body"
                     /\ pg.slot = s.slot
                     /\ r1.resp_array = pg.had \o PageItems(r.offset, pg.n)
                     /\ pg.had = r.resp_array]_vars

\* a page shorter than the limit was appended and the next page is requested
C22_Witness ==
    /\ ev.kind = "http_eof"
    /\ ev.page.slot = 1
    /\ ev.page.n = 1 /\ reqs[1].limit = 2
    /\ Len(ev.page.had) = 1
    /\ \E k \in DOMAIN ev.started : ev.started[k].slot = 1 /\ ev.started[k].offset = 2

\* C23: tearing the posture-checks bundle down marks every queued process
\* probe cancelled and leaves active_work empty, the probes themselves still
\* queued; and when a cancelled probe finishes, nothing but the probe goes:
\* the context's posture state (the bundle in force, its cache and error
\* states) and active_work are as before, no reply is collected and nothing
\* is submitted.
C23_CancelledProbeIsDropped ==
    [][/\ ev'.kind = "teardown" =>
             /\ Len(work') = Len(work)
             /\ \A j \in DOMAIN work' :
                   work'[j] = [work[j] EXCEPT !.canceled = TRUE]
             /\ active_work(work') = <<>>
             /\ ~ztx'.posture_checks.allocated
       /\ (ev'.kind = "probe_done"
             /\ Len(CancelledWork(work')) < Len(CancelledWork(work))) =>
             /\ ztx' = ztx
             /\ active_work(work') = active_work(work)
             /\ Len(work') = Len(work) - 1
             /\ ev'.replied = {}
             /\ ev'.posted = <<>>
             /\ posts' = posts]_vars

\* a cancelled probe is queued for a path for which the bundle made since
\* has a probe of its own outstanding
C23_Witness ==
    /\ ztx.posture_checks.allocated
    /\ "/bin/a" \in DOMAIN ztx.posture_checks.responses
    /\ ztx.posture_checks.responses["/bin/a"].pending
    /\ \E j \in DOMAIN work : work[j].canceled /\ work[j].path = "/bin/a"
    /\ \E j \in DOMAIN work : ~work[j].canceled /\ work[j].path = "/bin/a"

\* C24: when the controller client is closed, every request in flight
\* finishes with one callback whose error kind is DISABLED, each of these
\* callbacks is invoked while the cached URL is still held, and after the
\* close the URL, version, token and instance id are freed and the HTTP
\* client is gone.
C24_CloseDrainsBeforeFreeing ==
    ev.kind = "close" =>
        /\ \A i \in Slots : ~InFlight(reqs[i])
        /\ \A c \in ev.cancelled :
              /\ Cardinality(CbsOf(c.slot)) = 1
              /\ \A k \in CbsOf(c.slot) : ev.cbs[k].err.err = "DISABLED"
              /\ c.slot \notin ev.stale
        /\ ctrl.url = NULL /\ ctrl.version = NULL
        /\ ctrl.api_session_token = NULL /\ ctrl.instance_id = NULL
        /\ ~ctrl.client

\* the error kind the table gives for a code
KindOfCode(code) ==
    IF code = NULL THEN "OK"
    ELSE IF code \in {"NOT_FOUND", "CONTROLLER_UNAVAILABLE", "INVALID_POSTURE",
                      "MFA_INVALID_TOKEN", "MFA_EXISTS", "MFA_NOT_ENROLLED"} THEN code
    ELSE IF code \in {"NO_ROUTABLE_INGRESS_NODES", "NO_EDGE_ROUTERS_AVAILABLE"}
         THEN "GATEWAY_UNAVAILABLE"
    ELSE IF code \in {"INVALID_AUTHENTICATION", "REQUIRES_CERT_AUTH", "UNAUTHORIZED",
                      "INVALID_AUTH"} THEN "AUTH_FAILED"
    ELSE IF code = "INVALID_ENROLLMENT_TOKEN" THEN "JWT_INVALID"
    ELSE IF code = "COULD_NOT_VALIDATE" THEN "NOT_AUTHORIZED"
    ELSE "UNSPECIFIED"

\* C25: every error a callback receives when a body has ended has the kind
\* the table gives for its code (OK for an error without code, UNSPECIFIED
\* for a code the table does not hold) and the status of the response as
\* http_code.
C25_ErrorKindFollowsTable ==
    [][ev'.kind = "http_eof" =>
          \A k \in DOMAIN ev'.cbs :
              LET cb == ev'.cbs[k] IN
              cb.err # NullErr =>
                  /\ cb.err.err = KindOfCode(cb.err.code)
                  /\ cb.err.http_code = reqs[cb.slot].status]_vars

\* an error whose code the table maps to a kind of another name was
\* delivered with status 500
C25_Witness ==
    /\ ev.kind = "http_eof"
    /\ \E k \in DOMAIN ev.cbs :
          /\ ev.cbs[k].err.code = "INVALID_AUTH"
          /\ ev.cbs[k].err.err = "AUTH_FAILED"
          /\ ev.cbs[k].err.http_code = 500

\* C26: when the body of a response with status 300 or more ends and does
\* not parse as an envelope, the context's callback is invoked once, with no
\* object and an error with code INVALID_CONTROLLER_RESPONSE, the status as
\* http_code and the status text as message.
C26_UnparsableBodyIsReported ==
    LET e == ev.eof IN
    (ev.kind = "http_eof" /\ e.slot # 0 /\ ~e.json /\ e.status >= 300) =>
        /\ Cardinality(CbsOf(e.slot)) = 1
        /\ \A k \in CbsOf(e.slot) :
              /\ ev.cbs[k].obj = NullObj
              /\ ev.cbs[k].err.code = "INVALID_CONTROLLER_RESPONSE"
              /\ ev.cbs[k].err.http_code = e.status
              /\ ev.cbs[k].err.message = "status text"
        /\ ev.started = <<>>

C26_Witness ==
    LET e == ev.eof IN
    /\ ev.kind = "http_eof" /\ e.slot = 1 /\ ~e.json /\ e.status = 500
    /\ \E k \in CbsOf(1) : ev.cbs[k].err.http_code = 500

\* C27: a tick that is not skipped sets must_send to whether no session id
\* is recorded, or the recorded one is not the API session's, or the
\* recorded instance id is not the controller's, or must_send_every_time is
\* set as the tick begins; when it sets must_send it records the API
\* session's id and the controller's instance id, otherwise the recorded
\* ids stay.
C27_MustSendFollowsIds ==
    [][(ev'.kind = "tick" /\ ~ev'.tick.skipped) =>
          LET pc == ztx.posture_checks
              pc1 == ztx'.posture_checks
              differs == \/ pc.previous_api_session_id = NULL
                         \/ pc.previous_api_session_id # ztx.api_session
                         \/ pc.controller_instance_id # ctrl.instance_id
                         \/ pc.must_send_every_time
          IN /\ pc1.must_send = differs
             /\ differs => /\ pc1.previous_api_session_id = ztx.api_session
                            /\ pc1.controller_instance_id = ctrl.instance_id
             /\ ~differs => /\ pc1.previous_api_session_id = pc.previous_api_session_id
                             /\ pc1.controller_instance_id = pc.controller_instance_id]_vars

\* a tick found the instance id changed, the session id and the flag not,
\* and recorded the new instance id
C27_Witness ==
    /\ ev.kind = "tick" /\ ~ev.tick.skipped
    /\ ev.tick.new_controller_instance /\ ~ev.tick.new_session_id /\ ~ev.tick.every_time
    /\ ev.tick.prev_instance = "i1"
    /\ ztx.posture_checks.must_send
    /\ ztx.posture_checks.controller_instance_id = "i2"

\* C28: a probe reply that arrives outside a tick changes nothing but the
\* cache entry of its key: the entry is no longer pending; when it held no
\* body or another body it holds the reply's body and should_send is set;
\* when it held the same body it keeps it and should_send is whether
\* must_send_every_time is set or the last submission of the key failed.
\* Without an entry for the key the cache stays as it is.
C28_ReplyUpdatesItsEntry ==
    [][ev'.kind \in {"probe_done", "late_reply"} /\ ev'.reply.key # NULL =>
          LET pc == ztx.posture_checks
              key == ev'.reply.key
              obj == ev'.reply.obj
          IN IF key \in DOMAIN pc.responses
             THEN LET cur == pc.responses[key]
                      differs == cur.obj = NoJson \/ cur.obj # obj
                      errored == key \in DOMAIN pc.error_states /\ pc.error_states[key]
                  IN ztx' = [ztx EXCEPT !.posture_checks.responses[key] =
                               [pending |-> FALSE,
                                obj |-> IF differs THEN obj ELSE cur.obj,
                                should_send |-> IF differs THEN TRUE
                                                ELSE pc.must_send_every_time \/ errored,
                                obsolete |-> cur.obsolete]]
             ELSE ztx' = ztx]_vars

\* the body cached was replied again after its submission had failed, with
\* must_send_every_time off
C28_Witness ==
    /\ ev.kind \in {"probe_done", "late_reply"}
    /\ \E r \in ev.replied : ~r.changed /\ r.errored
    /\ ~ztx.posture_checks.must_send_every_time
    /\ ztx.posture_checks.responses[ev.reply.key].should_send

\* C29: after a tick that is not skipped must_send_every_time is false when
\* a posture query of the services has timeout -1 and true when none has.
C29_EveryTimeIsRecomputed ==
    [][(ev'.kind = "tick" /\ ~ev'.tick.skipped) =>
          ztx'.posture_checks.must_send_every_time =
              ~(\E q \in ztx.services : q.timeout = NO_TIMEOUTS)]_vars

\* C30: after a tick that is not skipped no cache entry is flagged obsolete
\* and the cache holds an entry for exactly the keys the services' posture
\* queries ask for and the keys whose entry was pending or had should_send
\* set when the tick began.
C30_TickKeepsWhatIsNeeded ==
    [][(ev'.kind = "tick" /\ ~ev'.tick.skipped) =>
          LET had == ztx.posture_checks.responses
              has == ztx'.posture_checks.responses
          IN /\ \A k \in DOMAIN has : ~has[k].obsolete
             /\ DOMAIN has = KeysOf(ztx.services)
                                \cup {k \in DOMAIN had : had[k].pending \/ had[k].should_send}]_vars

\* a tick has removed the entry of a path no query asks for any more and
\* kept the entry of another such path, which is pending
C30_Witness ==
    /\ ev.kind = "tick" /\ ~ev.tick.skipped
    /\ ztx.services = {}
    /\ DOMAIN ztx.posture_checks.responses = {"/bin/b"}
    /\ ztx.posture_checks.responses["/bin/b"].pending
    /\ \E j \in DOMAIN work : work[j].path = "/bin/b"

\* C31: a tick that begins while there is no API session, or while the
\* session is not fully authenticated, leaves the posture engine as it is:
\* the cache, the error states, must_send, must_send_every_time and the
\* recorded ids stay, no probe is invoked or queued, no reply collected and
\* nothing submitted.
C31_SkippedTickDoesNothing ==
    [][(/\ ev'.kind = "tick"
        /\ (ztx.api_session = NULL \/ ztx.api_session_state # "FullyAuthenticated")) =>
          /\ ztx' = ztx
          /\ posts' = posts
          /\ work' = work
          /\ ev'.tick.skipped
          /\ ev'.dispatched = <<>>
          /\ ev'.replied = {}
          /\ ev'.posted = <<>>]_vars

\* a tick was skipped with a fully authenticated state and no session,
\* while the cache held a body that no query asks for any more
C31_Witness ==
    /\ ev.kind = "tick" /\ ev.tick.skipped
    /\ ztx.api_session = NULL
    /\ ztx.api_session_state = "FullyAuthenticated"
    /\ ztx.services = {}
    /\ PC_OS_TYPE \in DOMAIN ztx.posture_checks.responses

\* C32: against a controller that answers every bulk submission with 404,
\* once the bulk endpoint is known to be missing and no bulk submission is
\* outstanding, a tick submits on its own every id whose probe answers the
\* body already cached and that has not been submitted on its own before.
C32_RejectedBatchGoesOneByOne ==
    [][(/\ ev'.kind = "tick" /\ ~ev'.tick.skipped
        /\ ztx.no_bulk_posture_response_api
        /\ \A k \in DOMAIN posts : posts[k].path # BulkPath) =>
          \A r \in ev'.replied :
              (/\ ~r.changed
               /\ r.id \notin DOMAIN ztx.posture_checks.error_states
               /\ \A k \in DOMAIN posts : r.id \notin posts[k].ids) =>
                  \E k \in DOMAIN ev'.posted :
                      ev'.posted[k].path = ItemPath /\ ev'.posted[k].ids = {r.id}]_vars

\* C33: whenever the user's callback of a response context is invoked, it
\* is given the context value the caller passed to the operation, and the
\* response context is freed by the end of the step.
C33_CallbackGetsCallersContext ==
    \A i \in Slots : \A k \in CbsOf(i) :
        /\ ev.cbs[k].ctx = UserCtx(i)
        /\ reqs[i].state = "freed"

\* C34: a paged operation whose requests are all answered comes to its
\* end: while its context is in flight, the context is eventually finished.
C34_PagedWalkTerminates ==
    (reqs[1].paging /\ InFlight(reqs[1])) ~> Finished(reqs[1])

\* C35: a posture submission callback, bulk or per-item, that fires when
\* the context has no posture-checks bundle leaves the posture engine's state
\* (error states, must_send, the no-bulk flag) as it was, stops nothing and
\* asks for no service refresh.
C35_LateCallbackTouchesNothing ==
    [][(ev'.kind = "post_done" /\ ~ztx.posture_checks.allocated)
          => (ztx' = ztx /\ ~ev'.refresh)]_vars

\* C36: when a current-api-session request ends, a response that decodes
\* to a session leaves that session's token as the stored token and as the
\* zt-session header; a response that ends with an error leaves both absent;
\* a transport failure or a cancellation leaves both as they were.
C36_CurrentSessionUpdatesToken ==
    [][\A i \in Slots :
          (/\ InFlight(reqs[i]) /\ Finished(reqs'[i])
           /\ reqs[i].ctrl_cb = "ctrl_login_cb" /\ reqs[i].needs_session) =>
             \A k \in DOMAIN ev'.cbs :
                ev'.cbs[k].slot = i =>
                   /\ (ev'.kind = "http_eof" /\ ev'.cbs[k].obj.kind = "session") =>
                         /\ ctrl'.api_session_token = ev'.cbs[k].obj.val
                         /\ ctrl'.zt_session = ev'.cbs[k].obj.val
                   /\ (ev'.kind = "http_eof" /\ ev'.cbs[k].err # NullErr) =>
                         /\ ctrl'.api_session_token = NULL
                         /\ ctrl'.zt_session = NULL
                   /\ ev'.kind \in {"http_fail", "http_body_fail", "cancel"} =>
                         /\ ctrl'.api_session_token = ctrl.api_session_token
                         /\ ctrl'.zt_session = ctrl.zt_session]_vars

\* C36 as it holds: a response that decodes to a session leaves that
\* session's token as the stored token and as the zt-session header, also
\* when the envelope carries an error beside the session; a response that
\* ends with an error and no session leaves both absent; a transport
\* failure or a cancellation leaves both as they were.
C36_SessionWinsOverError ==
    [][\A i \in Slots :
          (/\ InFlight(reqs[i]) /\ Finished(reqs'[i])
           /\ reqs[i].ctrl_cb = "ctrl_login_cb" /\ reqs[i].needs_session) =>
             \A k \in DOMAIN ev'.cbs :
                ev'.cbs[k].slot = i =>
                   /\ (ev'.kind = "http_eof" /\ ev'.cbs[k].obj.kind = "session") =>
                         /\ ctrl'.api_session_token = ev'.cbs[k].obj.val
                         /\ ctrl'.zt_session = ev'.cbs[k].obj.val
                   /\ (/\ ev'.kind = "http_eof" /\ ev'.cbs[k].err # NullErr
                       /\ ev'.cbs[k].obj = NullObj) =>
                         /\ ctrl'.api_session_token = NULL
                         /\ ctrl'.zt_session = NULL
                   /\ ev'.kind \in {"http_fail", "http_body_fail", "cancel"} =>
                         /\ ctrl'.api_session_token = ctrl.api_session_token
                         /\ ctrl'.zt_session = ctrl.zt_session]_vars

\* a current-api-session request answered with an error and a session: the
\* session's token is stored
C36_Witness ==
    /\ ev.kind = "http_eof"
    /\ Finished(reqs[1]) /\ reqs[1].ctrl_cb = "ctrl_login_cb" /\ reqs[1].needs_session
    /\ Len(ev.cbs) = 1 /\ ev.cbs[1].err.code = "UNAUTHORIZED"
    /\ ev.cbs[1].obj.kind = "session" /\ ev.cbs[1].obj.val = "T2"
    /\ ctrl.api_session_token = "T2" /\ ctrl.zt_session = "T2"

\* C37: when the envelope of a response parses and the operation's decoder
\* rejects its data, the terminal callback receives the error of kind
\* INVALID_STATE with the code INVALID_CONTROLLER_RESPONSE, the message
\* "unexpected response JSON" and the status of the response as http_code.
C37_RejectedDataIsInvalidState ==
    LET e == ev.eof IN
    (ev.kind = "http_eof" /\ e.slot # 0 /\ e.json /\ e.data /\ ~e.decodes) =>
        /\ Cardinality(CbsOf(e.slot)) = 1
        /\ \A k \in CbsOf(e.slot) :
              /\ ev.cbs[k].err.err = "INVALID_STATE"
              /\ ev.cbs[k].err.code = "INVALID_CONTROLLER_RESPONSE"
              /\ ev.cbs[k].err.message = "unexpected response JSON"
              /\ ev.cbs[k].err.http_code = e.status

\* C38: a tick of a fully authenticated session, run while the controller
\* has reported no instance id, completes: the process goes on, the tick is
\* not cut short, and no instance id is recorded.
C38_TickIsSafeWithoutInstanceId ==
    [][(/\ ev'.kind = "tick"
        /\ ztx.api_session # NULL /\ ztx.api_session_state = "FullyAuthenticated"
        /\ ctrl.instance_id = NULL)
          => /\ ztx'.fault = NULL
             /\ ~ev'.tick.skipped
             /\ ztx'.posture_checks.controller_instance_id = NULL]_vars

\* C39: ziti_service_has_query_with_timeout leaves the service's
\* posture_query_map as it was, and returns true exactly when some query of
\* some set of the map has a timeout other than -1.
C39_QueryLeavesMapAlone ==
    service.called =>
        /\ service.posture_query_map = service.before
        /\ service.ret = (\E k \in DOMAIN service.before : HasTimeout(service.before[k]))

\* the level last asked for a marker, as ziti_log_set_level is to take it
EffectiveLevel(level) == IF level > TRACE THEN TRACE ELSE level

\* C40: once a level from NONE up to TRACE, or one above (taken as TRACE),
\* was set for a marker, that level is what ziti_log_level returns for a
\* file whose basename is the marker, and for the marker as module when the
\* file has no level of its own, whatever the global level is and whatever
\* was set for other markers since; after a negative level was set for the
\* marker, the marker as module gets the global level.
C40_MarkerLevelIsReturned ==
    \A m \in DOMAIN log.asked :
        LET L == log.asked[m] IN
        IF L >= 0
        THEN /\ \A file \in Files, module \in Modules :
                   basename(file) = m =>
                       ziti_log_level(log, module, file) = EffectiveLevel(L)
             /\ \A file \in Files :
                   basename(file) \notin Markers =>
                       ziti_log_level(log, m, file) = EffectiveLevel(L)
        ELSE \A file \in Files :
                   basename(file) \notin Markers =>
                       ziti_log_level(log, m, file) = log.ziti_log_lvl

====
